---------------------------- MODULE Spec2Model ----------------------------
(***************************************************************************)
(* A model of the particle engine of physics_engine.py (simulation_process)*)
(* with its spatial grid (grid.py) and the two queues that connect it to   *)
(* the front end (simulation_app.py) and to the renderer (visualizer.py).  *)
(*                                                                         *)
(* Numbers.  The program computes in binary floating point; the model      *)
(* computes in integers, in these units:                                   *)
(*   position        1/PosScale of a length unit (PosScale = 1/TIME_STEP,  *)
(*                   so velocity * TIME_STEP is exact);                    *)
(*   velocity        1 length unit per second;                             *)
(*   mass            1/MASS_DEN (halves, so that S1_MASS = 1.5 is 3);      *)
(*   energy          1/4 (0.5 * m * v^2 is mass2 * v^2 quarter units);     *)
(*   unit vectors    1/UNIT; Lennard-Jones ratios 1/FP.                    *)
(* A quotient that is not exact is truncated towards zero (Quot).          *)
(***************************************************************************)
EXTENDS Integers, Sequences, FiniteSets, TLC

VARIABLES
    param_q,                \* inbound control queue (mp.Queue), oldest first
    data_q,                 \* outbound frame queue (mp.Queue), oldest first
    data_q_maxsize,         \* the maxsize data_q was built with (0: none)
    spatial_grid,           \* Grid.cells: the ids inserted, by cell
    outbox,                 \* what the callers of param_q may still send
    pc,                     \* the engine's position in its loop
    messages_processed,     \* the drain counter of the current iteration
    message,                \* the message most recently dequeued
    running,
    tick,
    tunable_params,
    particles,
    total_energy_input,
    total_heat_dissipated,
    snapshots,              \* ticks at which log_snapshot was called
    obs                     \* observations of the run, read by the properties only

vars == << param_q, data_q, data_q_maxsize, spatial_grid, outbox, pc, messages_processed, message, running,
           tick, tunable_params, particles, total_energy_input,
           total_heat_dissipated, snapshots, obs >>

(***************************************************************************)
(* Bounds of the model.                                                    *)
(***************************************************************************)
PARTICLE_COUNT == 3     \* particles of the model, the drone included
MaxTick == 2            \* ticks a run may complete
MaxSent == 2            \* messages the callers send in a run of Spec
MaxBurst == 10          \* filler messages the callers send in a run of SpecBurst
MaxRestarts == 2        \* START messages the callers send in a run of SpecFault
Capacity == 1           \* maxsize of the frame queue in a run of SpecBounded

(***************************************************************************)
(* Configuration constants of physics_engine.py.                           *)
(***************************************************************************)
ENV_SIZE_X == 800
ENV_SIZE_Y == 600
INITIAL_NUDGE_MAX == 5
MAX_VELOCITY == 400
TIME_STEP_DEN == 200            \* TIME_STEP = 0.005 = 1 / 200
VELOCITY_DAMPING_NUM == 999     \* VELOCITY_DAMPING = 0.999 = 999 / 1000
VELOCITY_DAMPING_DEN == 1000
MIN_INTERACTION_DISTANCE == 1
CELL_SIZE == 60
MASS_DEN == 2
S0_MASS == 2                    \* 1.0, in halves
S0_SIGMA == 15
S0_EPSILON == 2
S1_MASS == 3                    \* 1.5, in halves
S1_SIGMA == 20
S1_EPSILON == 5
ENERGY_THRESHOLD_S1 == 150
INELASTIC_COLLISION_DAMPING_NUM == 85   \* INELASTIC_COLLISION_DAMPING = 0.85 = 85 / 100
INELASTIC_COLLISION_DAMPING_DEN == 100
DRONE_MASS == 2                 \* 1.0, in halves
DRONE_SIGMA == 30
DRONE_EPSILON == 50
IMPULSE_MAGNITUDE == 5000
MAX_BATCH == 10                 \* while messages_processed < 10
DATA_Q_MAXSIZE == 0             \* mp.Queue(): no maxsize, never full

PosScale == TIME_STEP_DEN
UNIT == 1000
FP == 1000
EPS_FP == 100           \* epsilon_avg, a square root, is kept in 1/EPS_FP
RATIO_CAP == 1465       \* largest sigma_avg / r (in 1/FP) the integers can raise to the 12th power

(***************************************************************************)
(* Integer helpers.                                                        *)
(***************************************************************************)
Abs(a) == IF a < 0 THEN -a ELSE a

\* a float that is not finite: float('inf'), -float('inf') or nan.  No
\* arithmetic is done on it: every operation on a non-finite float that the
\* model reaches yields a non-finite float, and every comparison with the
\* nan it reaches is false.
NON_FINITE == 2147483647

Finite(a) == a # NON_FINITE

Quot(a, b) == IF (a < 0) = (b < 0) THEN Abs(a) \div Abs(b) ELSE -(Abs(a) \div Abs(b))

Max2(a, b) == IF a >= b THEN a ELSE b

Min2(a, b) == IF a <= b THEN a ELSE b

RECURSIVE SqrtSearch(_, _, _)
SqrtSearch(n, lo, hi) ==
    IF lo >= hi THEN lo
    ELSE LET mid == (lo + hi + 1) \div 2
         IN  IF mid * mid <= n THEN SqrtSearch(n, mid, hi)
             ELSE SqrtSearch(n, lo, mid - 1)

\* floor of the square root, n >= 0
ISqrt(n) == SqrtSearch(n, 0, Min2(n, 46340))

(***************************************************************************)
(* Vector2D (vector.py).                                                   *)
(***************************************************************************)
Vector2D(a, b) == [x |-> a, y |-> b]

FiniteVec(v) == Finite(v.x) /\ Finite(v.y)

NonFiniteVec == Vector2D(NON_FINITE, NON_FINITE)

VAdd(u, v) == [x |-> u.x + v.x, y |-> u.y + v.y]

VSub(u, v) == [x |-> u.x - v.x, y |-> u.y - v.y]

\* v * (num / den)
VScale(v, num, den) == [x |-> Quot(v.x * num, den), y |-> Quot(v.y * num, den)]

MagSq(v) == v.x * v.x + v.y * v.y

Magnitude(v) == ISqrt(MagSq(v))

\* the unit vector along v, in 1/UNIT; the zero vector stays zero
Normalize(v) ==
    LET m == Magnitude(v)
    IN  IF m = 0 THEN Vector2D(0, 0)
        ELSE [x |-> Quot(v.x * UNIT, m), y |-> Quot(v.y * UNIT, m)]


(***************************************************************************)
(* Control messages.  A message of the program is any picklable value; the *)
(* model gives every message the same fields:                              *)
(*   shape    "dict" (a mapping) or "none" (None, not a mapping);          *)
(*   command  the value under 'command', or "absent";                      *)
(*   fxk,fyk  what is under 'force_x' / 'force_y': "num" (the number fx /  *)
(*            fy), "absent", or "str" (a value that is not a number);      *)
(*   pk       what is under 'params': "dict" (the mapping params),         *)
(*            "absent", or "int" (a value that is not a mapping).          *)
(***************************************************************************)
NoParams == [k \in {} |-> 0]

Msg(shape, command, fxk, fx, fyk, fy, pk, params) ==
    [shape |-> shape, command |-> command, fxk |-> fxk, fx |-> fx,
     fyk |-> fyk, fy |-> fy, pk |-> pk, params |-> params]

Command(c) == Msg("dict", c, "absent", 0, "absent", 0, "absent", NoParams)

Impulse(fx, fy) == Msg("dict", "APPLY_IMPULSE", "num", fx, "num", fy, "absent", NoParams)

Params(p) == Msg("dict", "absent", "absent", 0, "absent", 0, "dict", p)

START == Command("START")
STOP == Command("STOP")
LOG_SNAPSHOT == Command("LOG_SNAPSHOT")
UNKNOWN_COMMAND == Command("PAUSE")                 \* {'command': 'PAUSE'}
EMPTY_DICT == Command("absent")                     \* {}
IMPULSE_NO_FIELDS == Command("APPLY_IMPULSE")       \* {'command': 'APPLY_IMPULSE'}
IMPULSE_BAD_FIELD ==                                \* {..., 'force_x': 'a', 'force_y': 1}
    Msg("dict", "APPLY_IMPULSE", "str", 0, "num", 1, "absent", NoParams)
NOT_A_MAPPING == Msg("none", "absent", "absent", 0, "absent", 0, "absent", NoParams)
PARAMS_NOT_A_MAPPING == Msg("dict", "absent", "absent", 0, "absent", 0, "int", NoParams)

\* the partial updates of the model
P_BAD == [s0_epsilon |-> -2, energy_threshold_s1 |-> 0]
P_FIX == [s0_epsilon |-> 2]
P_INF == [s0_epsilon |-> NON_FINITE]                    \* {'s0_epsilon': float('inf')}
P_MODE == [drone_mode |-> "orbit", s1_epsilon |-> 7]    \* a key the engine never reads
P_MAG == [impulse_magnitude |-> 2500]                   \* what apply_impulse() sends
P_LOW == [energy_threshold_s1 |-> 0]                    \* any motion excites
P_EDGE == [energy_threshold_s1 |-> 10]                  \* the energy of a nudged particle after one tick

ParamUpdates == {P_BAD, P_FIX, P_MODE, P_MAG, P_LOW, P_EDGE}

\* directions whose magnitude is an integer, so that normalising is exact
Directions == { <<3, 4>>, <<0, 0>> }

Known == {"START", "STOP", "LOG_SNAPSHOT", "APPLY_IMPULSE"}

WellFormed ==
    {START, STOP, LOG_SNAPSHOT, UNKNOWN_COMMAND, EMPTY_DICT, IMPULSE_NO_FIELDS}
    \cup {Impulse(d[1], d[2]) : d \in Directions}
    \cup {Params(p) : p \in ParamUpdates}

Malformed == {NOT_A_MAPPING, PARAMS_NOT_A_MAPPING, IMPULSE_BAD_FIELD}

Messages == WellFormed \cup Malformed

(***************************************************************************)
(* Particles (class Particle and the construction in simulation_process).  *)
(***************************************************************************)
Ids == 0 .. (PARTICLE_COUNT - 1)

InitialParams ==
    [s0_epsilon |-> S0_EPSILON, s1_epsilon |-> S1_EPSILON,
     energy_threshold_s1 |-> ENERGY_THRESHOLD_S1,
     impulse_magnitude |-> IMPULSE_MAGNITUDE]

\* Particle.__init__
NewParticle(position, velocity) ==
    [position |-> position, velocity |-> velocity,
     acceleration |-> Vector2D(0, 0), net_force |-> Vector2D(0, 0),
     state |-> "S0", mass |-> S0_MASS, sigma |-> S0_SIGMA,
     epsilon |-> InitialParams.s0_epsilon,
     kinetic_energy |-> 0, potential_energy |-> 0]

\* Particle.update_state
update_state(p, new_state, tp) ==
    IF p.state = new_state THEN p
    ELSE IF new_state = "S1"
         THEN [p EXCEPT !.state = "S1", !.mass = S1_MASS, !.sigma = S1_SIGMA,
                        !.epsilon = tp.s1_epsilon]
         ELSE [p EXCEPT !.state = "S0", !.mass = S0_MASS, !.sigma = S0_SIGMA,
                        !.epsilon = tp.s0_epsilon]

\* the grid layout of the construction, in position units
num_cols == ISqrt((PARTICLE_COUNT * ENV_SIZE_X) \div ENV_SIZE_Y)
num_rows == (PARTICLE_COUNT + num_cols - 1) \div num_cols
LayoutPosition(i) ==
    Vector2D((((i % num_cols) + 1) * ENV_SIZE_X * PosScale) \div (num_cols + 1),
             (((i \div num_cols) + 1) * ENV_SIZE_Y * PosScale) \div (num_rows + 1))

\* the velocity nudges the model draws from uniform(-INITIAL_NUDGE_MAX, INITIAL_NUDGE_MAX)
Nudges == { v \in {Vector2D(-5, 3), Vector2D(4, 0)} :
              Abs(v.x) <= INITIAL_NUDGE_MAX /\ Abs(v.y) <= INITIAL_NUDGE_MAX }

\* the draws of a run: the first regular particle takes any nudge, the others
\* take the first or the second in turn
NudgeChoices ==
    { [i \in Ids |-> IF i = 1 THEN v
                     ELSE IF i % 2 = 0 THEN Vector2D(-5, 3) ELSE Vector2D(4, 0)] :
        v \in Nudges }

\* the particles after construction, given the nudge of each
InitialParticles(nudge) ==
    [i \in Ids |->
        IF i = 0
        THEN [NewParticle(Vector2D((ENV_SIZE_X * PosScale) \div 2,
                                   (ENV_SIZE_Y * PosScale) \div 2),
                          Vector2D(0, 0))
                EXCEPT !.mass = DRONE_MASS, !.sigma = DRONE_SIGMA,
                       !.epsilon = DRONE_EPSILON]
        ELSE NewParticle(LayoutPosition(i), nudge[i])]

(***************************************************************************)
(* The message drain of simulation_process: what one dequeued message does.*)
(* The engine state a message can touch is the record                      *)
(*   [running, tunable_params, particles, total_energy_input, snapshots].  *)
(* Each handler returns that record and the flag fault: an exception that  *)
(* leaves the drain and is caught by the handler at the end of the loop.   *)
(***************************************************************************)
EngineState ==
    [running |-> running, tunable_params |-> tunable_params,
     particles |-> particles, total_energy_input |-> total_energy_input,
     snapshots |-> snapshots]

Done(st) == [fault |-> FALSE, st |-> st]

Raised(st) == [fault |-> TRUE, st |-> st]

\* message.get('force_x', 0.0), message.get('force_y', 0.0)
ForceVector(m) ==
    Vector2D(IF m.fxk = "absent" THEN 0 ELSE m.fx,
             IF m.fyk = "absent" THEN 0 ELSE m.fy)

\* an impulse scaled by the magnitude of the construction, not the live one
ImpulseEffect_stale(drone, force_vec, magnitude) ==
    LET impulse == VScale(Normalize(force_vec), IMPULSE_MAGNITUDE, UNIT)
        delta_v == VScale(impulse, MASS_DEN, drone.mass)
        velocity == VAdd(drone.velocity, delta_v)
        old_ke == drone.mass * MagSq(VSub(velocity, delta_v))
        new_ke == drone.mass * MagSq(velocity)
    IN  [drone |-> [drone EXCEPT !.velocity = velocity],
         energy_added |-> new_ke - old_ke]

\* the branch of a non-zero force vector: the drone after the impulse and the
\* energy it adds
ImpulseEffect(drone, force_vec, magnitude) ==
    LET impulse == VScale(Normalize(force_vec), magnitude, UNIT)
        delta_v == VScale(impulse, MASS_DEN, drone.mass)
        velocity == VAdd(drone.velocity, delta_v)
        old_ke == drone.mass * MagSq(VSub(velocity, delta_v))
        new_ke == drone.mass * MagSq(velocity)
    IN  [drone |-> [drone EXCEPT !.velocity = velocity],
         energy_added |-> new_ke - old_ke]

\* a handler without the test of the magnitude: normalising the zero vector
\* divides by zero
ApplyImpulse_unguarded(m, st) ==
    IF m.fxk = "str" \/ m.fyk = "str"
    THEN Raised(st)
    ELSE IF Magnitude(ForceVector(m)) = 0
         THEN Raised(st)
         ELSE LET e == ImpulseEffect(st.particles[0], ForceVector(m),
                                     st.tunable_params.impulse_magnitude)
              IN  Done([st EXCEPT
                          !.particles = [st.particles EXCEPT ![0] = e.drone],
                          !.total_energy_input = @ + e.energy_added])

\* cmd == 'APPLY_IMPULSE'
ApplyImpulse(m, st) ==
    IF m.fxk = "str" \/ m.fyk = "str"
    THEN Raised(st)             \* arithmetic on a value that is not a number
    ELSE LET force_vec == ForceVector(m)
             magnitude == st.tunable_params.impulse_magnitude
         IN  IF Magnitude(force_vec) > 0
             THEN LET e == ImpulseEffect(st.particles[0], force_vec, magnitude)
                  IN  Done([st EXCEPT
                              !.particles = [st.particles EXCEPT ![0] = e.drone],
                              !.total_energy_input = @ + e.energy_added])
             ELSE Done(st)

\* a merge that puts the parameters the update does not name back to their
\* values of the construction
DictUpdate_reset(d, u) ==
    [k \in (DOMAIN d) \cup (DOMAIN u) |->
        IF k \in DOMAIN u THEN u[k]
        ELSE IF k \in DOMAIN InitialParams THEN InitialParams[k] ELSE d[k]]

\* a merge that adds the update to the numbers already there
DictUpdate_delta(d, u) ==
    [k \in (DOMAIN d) \cup (DOMAIN u) |->
        IF k \notin DOMAIN u THEN d[k]
        ELSE IF k \in DOMAIN d /\ k # "drone_mode" THEN d[k] + u[k] ELSE u[k]]

\* dict.update: the keys of the update are set, the others are kept
DictUpdate(d, u) ==
    [k \in (DOMAIN d) \cup (DOMAIN u) |-> IF k \in DOMAIN u THEN u[k] ELSE d[k]]

\* elif 'params' in message
UpdateParams(m, st) ==
    IF m.pk # "dict"
    THEN Raised(st)             \* dict.update of a value that is not a mapping
    ELSE Done([st EXCEPT !.tunable_params = DictUpdate(@, m.params)])

\* a dispatch that raises on a command it does not know
RunCommand_strict(m, st, at_tick) ==
    CASE m.command = "START" -> Done([st EXCEPT !.running = TRUE])
      [] m.command = "STOP" -> Done([st EXCEPT !.running = FALSE])
      [] m.command = "LOG_SNAPSHOT" -> Done([st EXCEPT !.snapshots = @ \cup {at_tick}])
      [] m.command = "APPLY_IMPULSE" -> ApplyImpulse(m, st)
      [] OTHER -> Raised(st)

\* if 'command' in message
RunCommand(m, st, at_tick) ==
    CASE m.command = "START" -> Done([st EXCEPT !.running = TRUE])
      [] m.command = "STOP" -> Done([st EXCEPT !.running = FALSE])
      [] m.command = "LOG_SNAPSHOT" -> Done([st EXCEPT !.snapshots = @ \cup {at_tick}])
      [] m.command = "APPLY_IMPULSE" -> ApplyImpulse(m, st)
      [] OTHER -> Done(st)

\* the body of the drain loop for the message m
ProcessMessage(m, st, at_tick) ==
    IF m.shape # "dict"
    THEN Raised(st)             \* 'command' in None
    ELSE IF m.command # "absent" THEN RunCommand(m, st, at_tick)
         ELSE IF m.pk # "absent" THEN UpdateParams(m, st)
              ELSE Done(st)

(***************************************************************************)
(* The spatial grid (grid.py).  The grid is rebuilt from the positions in  *)
(* every tick, so its cells are a function of the particles.               *)
(***************************************************************************)
IdSeq == [i \in 1 .. PARTICLE_COUNT |-> i - 1]

\* Grid._get_cell_coords: int() truncates towards zero
GetCellCoords(position) ==
    << Quot(position.x, CELL_SIZE * PosScale), Quot(position.y, CELL_SIZE * PosScale) >>

\* self.cells[coords] after clear() and the insertion of every particle in order
CellContents(ps, coords) ==
    LET InCell(i) == GetCellCoords(ps[i].position) = coords
    IN  SelectSeq(IdSeq, InCell)

\* a neighbourhood that looks only at the particle's cell and the cells
\* after it
NeighbourOffsets_forward ==
    << <<0, 0>>, <<1, 0>>, <<0, 1>>, <<1, 1>> >>

NeighbourOffsets ==
    << <<-1, -1>>, <<0, -1>>, <<1, -1>>, <<-1, 0>>, <<0, 0>>, <<1, 0>>,
       <<-1, 1>>, <<0, 1>>, <<1, 1>> >>

RECURSIVE Collect(_, _, _)
Collect(ps, center, k) ==
    IF k > Len(NeighbourOffsets) THEN << >>
    ELSE CellContents(ps, << center[1] + NeighbourOffsets[k][1],
                             center[2] + NeighbourOffsets[k][2] >>)
         \o Collect(ps, center, k + 1)

\* Grid.get_neighbors: the ids in the 3x3 block around the particle's cell
GetNeighbors(ps, i) == Collect(ps, GetCellCoords(ps[i].position), 1)

\* Grid.cells after __init__ or clear(): {}
NoCells == [coords \in {} |-> << >>]

\* Grid.cells after clear() and the insertion of every particle
Cells(ps) ==
    [coords \in {GetCellCoords(ps[i].position) : i \in Ids} |-> CellContents(ps, coords)]

\* Grid.cells after the rebuild of a tick: insert raises at the first
\* particle, the drone, when the positions are not finite
Rebuilt(ps) == IF FiniteVec(ps[0].position) THEN Cells(ps) ELSE NoCells

\* Grid.get_neighbors on the cells kept: a cell never inserted into is empty
RECURSIVE NeighborsFrom(_, _, _)
NeighborsFrom(cells, center, k) ==
    IF k > Len(NeighbourOffsets) THEN << >>
    ELSE LET coords == << center[1] + NeighbourOffsets[k][1],
                         center[2] + NeighbourOffsets[k][2] >>
         IN  (IF coords \in DOMAIN cells THEN cells[coords] ELSE << >>)
             \o NeighborsFrom(cells, center, k + 1)

get_neighbors(cells, position) == NeighborsFrom(cells, GetCellCoords(position), 1)

(***************************************************************************)
(* The physics of one tick.                                                *)
(***************************************************************************)
\* sum(0.5 * p.mass * p.velocity.magnitude()**2 for p in particles)
RECURSIVE TotalKE(_, _)
TotalKE(ps, i) ==
    IF i >= PARTICLE_COUNT THEN 0
    ELSE ps[i].mass * MagSq(ps[i].velocity) + TotalKE(ps, i + 1)

\* the first half step of one particle
Advance(p, tp) ==
    LET q == IF p.state = "S0" THEN [p EXCEPT !.epsilon = tp.s0_epsilon] ELSE p
    IN  IF ~(FiniteVec(p.velocity) /\ FiniteVec(p.acceleration))
        THEN [q EXCEPT !.position = NonFiniteVec, !.velocity = NonFiniteVec]
        ELSE
        [q EXCEPT
           !.position = VAdd(VAdd(p.position,
                                  VScale(p.velocity, PosScale, TIME_STEP_DEN)),
                             VScale(p.acceleration, PosScale,
                                    2 * TIME_STEP_DEN * TIME_STEP_DEN)),
           !.velocity = VAdd(p.velocity, VScale(p.acceleration, 1, 2 * TIME_STEP_DEN))]

\* spatial_grid.insert(p); p.net_force = Vector2D(0, 0); p.potential_energy = 0.0
ResetForces(ps) ==
    [i \in Ids |-> [ps[i] EXCEPT !.net_force = Vector2D(0, 0), !.potential_energy = 0]]

\* a separation in length units
Lengths(d) == Vector2D(Quot(d.x, PosScale), Quot(d.y, PosScale))

\* (sigma_avg / r_clamped)**6 from the ratio sigma_avg / r_clamped
SixthPower(ratio) ==
    (((((ratio * ratio) \div FP) * ((ratio * ratio) \div FP)) \div FP)
        * ((ratio * ratio) \div FP)) \div FP

\* potential = 4 eps (sr12 - sr6); force_mag = 24 eps (2 sr12 - sr6) / r_clamped
LJTerms(sr6, sr12, epsilon_avg, r_clamped) ==
    [potential |-> Quot(Quot((sr12 - sr6) * epsilon_avg, FP) * 16, EPS_FP),
     force_mag |-> Quot(Quot((2 * sr12 - sr6) * epsilon_avg, FP) * 24,
                        EPS_FP * r_clamped)]

LJFromSr6(sr6, epsilon_avg, r_clamped) ==
    LJTerms(sr6, (sr6 * sr6) \div FP, epsilon_avg, r_clamped)

LJClamped(sigma_sum, eps_prod, r_clamped) ==
    LJFromSr6(SixthPower(Min2(Quot(sigma_sum * FP, 2 * r_clamped), RATIO_CAP)),
              ISqrt(eps_prod * EPS_FP * EPS_FP), r_clamped)

\* the Lennard-Jones pair law at distance r: the pair potential and the force
\* magnitude for sigma_avg = sigma_sum / 2 and epsilon_avg = sqrt(eps_prod)
LennardJones(sigma_sum, eps_prod, r) ==
    LJClamped(sigma_sum, eps_prod, Max2(r, MIN_INTERACTION_DISTANCE))

\* the pair law between particles a and b, dist_vec apart: the force vector
\* along dist_vec, the pair potential and the distance
PairLaw(a, b, dist_vec, lj) ==
    [force_vec |-> VScale(Normalize(dist_vec), lj.force_mag, UNIT),
     potential |-> lj.potential, r |-> Magnitude(dist_vec)]

PairAt(a, b, dist_vec) ==
    PairLaw(a, b, dist_vec,
            LennardJones(a.sigma + b.sigma, a.epsilon * b.epsilon, Magnitude(dist_vec)))

\* a drone interaction that pushes the particle and not the drone
ApplyDroneForce_noreaction(ps, i, f) ==
    [ps EXCEPT ![i].net_force = VAdd(@, f.force_vec),
               ![i].potential_energy = @ + f.potential]

\* p1.net_force += force_vec; p1.potential_energy += potential;
\* drone.net_force -= force_vec
ApplyDroneForce(ps, i, f) ==
    [ps EXCEPT ![i].net_force = VAdd(@, f.force_vec),
               ![i].potential_energy = @ + f.potential,
               ![0].net_force = VSub(@, f.force_vec)]

\* p1.net_force -= force_vec; p2.net_force += force_vec; half the potential each
ApplyPairForce(ps, p1, p2, f) ==
    [ps EXCEPT ![p1].net_force = VSub(@, f.force_vec),
               ![p2].net_force = VAdd(@, f.force_vec),
               ![p1].potential_energy = @ + Quot(f.potential, 2),
               ![p2].potential_energy = @ + Quot(f.potential, 2)]

\* if r * r < min_dist_sq: min_dist_sq = r * r  (-1 stands for float('inf'))
MinDistSq(min_dist_sq, r) ==
    IF min_dist_sq < 0 \/ r * r < min_dist_sq THEN r * r ELSE min_dist_sq

\* 1. drone-particle interactions, from particle i on; math.sqrt of a negative
\* product raises, and leaves the forces applied so far
RECURSIVE DroneInteractions(_, _)
DroneInteractions(ps, i) ==
    IF i >= PARTICLE_COUNT THEN [fault |-> FALSE, ps |-> ps]
    ELSE IF ps[i].epsilon * ps[0].epsilon < 0 THEN [fault |-> TRUE, ps |-> ps]
    ELSE DroneInteractions(
            ApplyDroneForce(ps, i,
                PairAt(ps[i], ps[0],
                       Lengths(VSub(ps[i].position, ps[0].position)))),
            i + 1)

\* whether particle p1 evaluates its candidate p2
\* a pass that skips only the particle itself and the drone
PairSelected_unordered(p1, p2) == ~(p1 = p2 \/ p2 = 0)

PairSelected(p1, p2) == ~(p1 >= p2 \/ p2 = 0)

\* the inner loop of 2.: the candidates of p1 from the k-th on
RECURSIVE PairLoop(_, _, _, _, _)
PairStep(ps, p1, nbrs, k, min_dist_sq, f) ==
    PairLoop(ApplyPairForce(ps, p1, nbrs[k], f), p1, nbrs, k + 1,
             MinDistSq(min_dist_sq, f.r))

PairLoop(ps, p1, nbrs, k, min_dist_sq) ==
    IF k > Len(nbrs) THEN [ps |-> ps, min_dist_sq |-> min_dist_sq]
    ELSE IF ~PairSelected(p1, nbrs[k])
         THEN PairLoop(ps, p1, nbrs, k + 1, min_dist_sq)
         ELSE PairStep(ps, p1, nbrs, k, min_dist_sq,
                       PairAt(ps[p1], ps[nbrs[k]],
                              Lengths(VSub(ps[nbrs[k]].position, ps[p1].position))))

\* 2. particle-particle interactions, from particle p1 on; the grid is the one
\* built from the positions of grid_ps
RECURSIVE PairInteractions(_, _, _, _)
NextParticle(done, grid_ps, p1, total_nn_dist) ==
    PairInteractions(done.ps, grid_ps, p1 + 1,
                     IF done.min_dist_sq >= 0
                     THEN total_nn_dist + ISqrt(done.min_dist_sq)
                     ELSE total_nn_dist)

PairInteractions(ps, grid_ps, p1, total_nn_dist) ==
    IF p1 >= PARTICLE_COUNT THEN [ps |-> ps, total_nn_dist |-> total_nn_dist]
    ELSE NextParticle(PairLoop(ps, p1, GetNeighbors(grid_ps, p1), 1, -1),
                      grid_ps, p1, total_nn_dist)

\* a state machine that also moves at total_energy == threshold
Transition_inclusive(p, tp) ==
    LET total_energy == p.kinetic_energy + p.potential_energy
        threshold == 4 * tp.energy_threshold_s1
    IN  IF p.state = "S0" /\ total_energy >= threshold
        THEN update_state(p, "S1", tp)
        ELSE IF p.state = "S1" /\ total_energy <= threshold
             THEN update_state(
                     [p EXCEPT !.velocity = VScale(@, INELASTIC_COLLISION_DAMPING_NUM,
                                                   INELASTIC_COLLISION_DAMPING_DEN)],
                     "S0", tp)
             ELSE p

\* a state machine that takes the inelastic factor at both transitions
Transition_bothways(p, tp) ==
    LET total_energy == p.kinetic_energy + p.potential_energy
        threshold == 4 * tp.energy_threshold_s1
        slowed == [p EXCEPT !.velocity = VScale(@, INELASTIC_COLLISION_DAMPING_NUM,
                                                INELASTIC_COLLISION_DAMPING_DEN)]
    IN  IF p.state = "S0" /\ total_energy > threshold
        THEN update_state(slowed, "S1", tp)
        ELSE IF p.state = "S1" /\ total_energy < threshold
             THEN update_state(slowed, "S0", tp)
             ELSE p

\* a state machine without the way back to S0
Transition_sticky(p, tp) ==
    LET total_energy == p.kinetic_energy + p.potential_energy
        threshold == 4 * tp.energy_threshold_s1
    IN  IF p.state = "S0" /\ total_energy > threshold
        THEN update_state(p, "S1", tp)
        ELSE p

\* the state machine of one regular particle, after its kinetic energy is set
Transition(p, tp) ==
    LET total_energy == p.kinetic_energy + p.potential_energy
        threshold == 4 * tp.energy_threshold_s1
    IN  IF p.state = "S0" /\ total_energy > threshold
        THEN update_state(p, "S1", tp)
        ELSE IF p.state = "S1" /\ total_energy < threshold
             THEN update_state(
                     [p EXCEPT !.velocity = VScale(@, INELASTIC_COLLISION_DAMPING_NUM,
                                                   INELASTIC_COLLISION_DAMPING_DEN)],
                     "S0", tp)
             ELSE p

\* a second half step that runs the state machine for the drone as well
VelocityUpdate_all(p, i, tp) ==
    LET acceleration == VScale(p.net_force, MASS_DEN, p.mass)
        kicked == VAdd(p.velocity, VScale(acceleration, 1, 2 * TIME_STEP_DEN))
        damped == VScale(kicked, VELOCITY_DAMPING_NUM, VELOCITY_DAMPING_DEN)
        speed_sq == MagSq(damped)
        limited == IF speed_sq > MAX_VELOCITY * MAX_VELOCITY
                   THEN VScale(Normalize(damped), MAX_VELOCITY, UNIT)
                   ELSE damped
    IN  Transition([p EXCEPT !.acceleration = acceleration, !.velocity = limited,
                             !.kinetic_energy = p.mass * speed_sq], tp)

\* the second half step of particle i: acceleration, velocity, damping, speed
\* limit, kinetic energy and, for a regular particle, the state machine
VelocityUpdate(p, i, tp) ==
    LET acceleration == VScale(p.net_force, MASS_DEN, p.mass)
        kicked == VAdd(p.velocity, VScale(acceleration, 1, 2 * TIME_STEP_DEN))
        damped == VScale(kicked, VELOCITY_DAMPING_NUM, VELOCITY_DAMPING_DEN)
        speed_sq == MagSq(damped)
        limited == IF speed_sq > MAX_VELOCITY * MAX_VELOCITY
                   THEN VScale(Normalize(damped), MAX_VELOCITY, UNIT)
                   ELSE damped
        q == [p EXCEPT !.acceleration = acceleration, !.velocity = limited,
                       !.kinetic_energy = p.mass * speed_sq]
    IN  IF i # 0 THEN Transition(q, tp) ELSE q

\* the boundary conditions of one particle
\* a boundary that turns the velocity around and leaves the position
Reflect_noclamp(p) ==
    LET radius == Quot(p.sigma * PosScale, 2)
        width == ENV_SIZE_X * PosScale
        height == ENV_SIZE_Y * PosScale
        px == IF p.position.x - radius < 0 \/ p.position.x + radius > width
              THEN [p EXCEPT !.velocity.x = -@]
              ELSE p
    IN  IF px.position.y - radius < 0 \/ px.position.y + radius > height
        THEN [px EXCEPT !.velocity.y = -@]
        ELSE px

\* the boundary conditions of one particle, the x axis and then the y axis
Reflect(p) ==
    LET radius == Quot(p.sigma * PosScale, 2)
        width == ENV_SIZE_X * PosScale
        height == ENV_SIZE_Y * PosScale
        px == IF p.position.x - radius < 0
              THEN [p EXCEPT !.velocity.x = -@, !.position.x = radius]
              ELSE IF p.position.x + radius > width
                   THEN [p EXCEPT !.velocity.x = -@, !.position.x = width - radius]
                   ELSE p
    IN  IF px.position.y - radius < 0
        THEN [px EXCEPT !.velocity.y = -@, !.position.y = radius]
        ELSE IF px.position.y + radius > height
             THEN [px EXCEPT !.velocity.y = -@, !.position.y = height - radius]
             ELSE px

RECURSIVE SumOver(_, _, _)
SumOver(f, lo, hi) == IF lo > hi THEN 0 ELSE f[lo] + SumOver(f, lo + 1, hi)

\* the frame handed to data_q: {'tick', 'agents', 'metrics'}
Frame(ps, at_tick, total_nn_dist, energy_input, heat) ==
    LET drone == ps[0]
        last == PARTICLE_COUNT - 1
        num_reg_particles == PARTICLE_COUNT - 1
        total_ke == SumOver([i \in Ids |-> ps[i].kinetic_energy], 1, last)
                    + drone.kinetic_energy
        total_pe == SumOver([i \in Ids |-> ps[i].potential_energy], 0, last)
        total_system_energy == total_ke + total_pe
    IN  [tick |-> at_tick,
         agents |-> [i \in 1 .. last |->
                       [x |-> ps[i].position.x, y |-> ps[i].position.y,
                        ke |-> ps[i].kinetic_energy, mass |-> ps[i].mass,
                        outline_color_num |-> IF ps[i].state = "S1" THEN 1 ELSE 0]],
         drone |-> [x |-> drone.position.x, y |-> drone.position.y,
                    vx |-> drone.velocity.x, vy |-> drone.velocity.y],
         metrics |->
           [total_ke |-> total_ke, total_pe |-> total_pe,
            total_energy |-> total_system_energy,
            s1_count |-> Cardinality({i \in 1 .. last : ps[i].state = "S1"}),
            temperature |-> IF PARTICLE_COUNT > 0
                            THEN Quot(total_ke, PARTICLE_COUNT) ELSE 0,
            order |-> IF num_reg_particles > 0
                      THEN Quot(total_nn_dist, num_reg_particles) ELSE 0,
            drone_speed |-> Magnitude(drone.velocity),
            drone_ke |-> drone.kinetic_energy,
            heat_dissipated |-> heat,
            energy_input |-> energy_input,
            energy_balance |-> energy_input - (total_system_energy + heat),
            momentum_x |-> SumOver([i \in Ids |-> ps[i].mass * ps[i].velocity.x], 0, last),
            momentum_y |-> SumOver([i \in Ids |-> ps[i].mass * ps[i].velocity.y], 0, last)]]

\* a tick that counts itself before it packages its frame
TickResult_late(bounded, at_tick, total_nn_dist, energy_input, heat_after) ==
    [fault |-> FALSE, particles |-> bounded, heat |-> heat_after,
     frame |-> << Frame(bounded, at_tick + 1, total_nn_dist, energy_input, heat_after) >>]

\* the end of a tick that did not raise
TickResult(bounded, at_tick, total_nn_dist, energy_input, heat_after) ==
    [fault |-> FALSE, particles |-> bounded, heat |-> heat_after,
     frame |-> << Frame(bounded, at_tick, total_nn_dist, energy_input, heat_after) >>]

\* the heat of the tick, then the boundary conditions
BoundaryStep(updated, total_ke_before_damping, at_tick, total_nn_dist, energy_input, heat) ==
    TickResult([i \in Ids |-> Reflect(updated[i])], at_tick, total_nn_dist,
               energy_input,
               heat + (total_ke_before_damping - TotalKE(updated, 0)))

\* the velocity update and the state transitions
VelocityStep(pairs, tp, total_ke_before_damping, at_tick, energy_input, heat) ==
    BoundaryStep([i \in Ids |-> VelocityUpdate(pairs.ps[i], i, tp)],
                 total_ke_before_damping, at_tick, pairs.total_nn_dist,
                 energy_input, heat)

\* the particle-particle interactions, unless the drone's raised
ForceStep(drone_done, advanced, tp, total_ke_before_damping, at_tick, energy_input, heat) ==
    IF drone_done.fault
    THEN [fault |-> TRUE, particles |-> drone_done.ps, heat |-> heat,
          frame |-> << >>]
    ELSE VelocityStep(PairInteractions(drone_done.ps, advanced, 1, 0), tp,
                      total_ke_before_damping, at_tick, energy_input, heat)

\* the frame of a tick whose forces were not finite: the sums over the
\* kinetic energies, the potential energies and the velocities are not finite
NonFiniteFrame(ps, at_tick, total_nn_dist, energy_input) ==
    LET last == PARTICLE_COUNT - 1
    IN  [tick |-> at_tick,
         agents |-> [i \in 1 .. last |->
                       [x |-> ps[i].position.x, y |-> ps[i].position.y,
                        ke |-> ps[i].kinetic_energy, mass |-> ps[i].mass,
                        outline_color_num |-> IF ps[i].state = "S1" THEN 1 ELSE 0]],
         drone |-> [x |-> ps[0].position.x, y |-> ps[0].position.y,
                    vx |-> ps[0].velocity.x, vy |-> ps[0].velocity.y],
         metrics |->
           [total_ke |-> NON_FINITE, total_pe |-> NON_FINITE,
            total_energy |-> NON_FINITE,
            s1_count |-> Cardinality({i \in 1 .. last : ps[i].state = "S1"}),
            temperature |-> NON_FINITE,
            order |-> IF last > 0 THEN Quot(total_nn_dist, last) ELSE 0,
            drone_speed |-> NON_FINITE,
            drone_ke |-> ps[0].kinetic_energy,
            heat_dissipated |-> NON_FINITE,
            energy_input |-> energy_input,
            energy_balance |-> NON_FINITE,
            momentum_x |-> NON_FINITE,
            momentum_y |-> NON_FINITE]]

\* a tick in which the drone's epsilon is not finite: epsilon_avg, and with
\* it the potential and the force of every drone-particle pair, is not
\* finite; the velocity update turns that into velocities and kinetic
\* energies that are not finite, for the drone and for every particle, no
\* comparison of the state machine holds, and nothing resets them.  The
\* positions, updated before the forces, are still finite and are reflected.
NonFiniteTick(advanced, at_tick, energy_input, total_nn_dist) ==
    LET bounded ==
          [i \in Ids |->
             [advanced[i] EXCEPT
                !.position = Reflect([advanced[i] EXCEPT
                                        !.velocity = Vector2D(0, 0)]).position,
                !.net_force = NonFiniteVec,
                !.acceleration = NonFiniteVec,
                !.velocity = NonFiniteVec,
                !.kinetic_energy = NON_FINITE,
                !.potential_energy = IF i = 0 THEN 0 ELSE NON_FINITE]]
    IN  [fault |-> FALSE, particles |-> bounded, heat |-> NON_FINITE,
         frame |-> << NonFiniteFrame(bounded, at_tick, total_nn_dist, energy_input) >>]

\* the grid rebuild and the drone-particle interactions; int() of a position
\* that is not finite raises in spatial_grid.insert
GridStep(advanced, tp, total_ke_before_damping, at_tick, energy_input, heat) ==
    IF \E i \in Ids : ~FiniteVec(advanced[i].position)
    THEN [fault |-> TRUE, particles |-> advanced, heat |-> heat, frame |-> << >>]
    ELSE IF ~Finite(advanced[0].epsilon)
    THEN NonFiniteTick(advanced, at_tick, energy_input,
             PairInteractions(
                 ResetForces([i \in Ids |-> [advanced[i] EXCEPT !.epsilon = 1]]),
                 advanced, 1, 0).total_nn_dist)
    ELSE ForceStep(DroneInteractions(ResetForces(advanced), 1), advanced, tp,
                   total_ke_before_damping, at_tick, energy_input, heat)

\* the physics of one tick, from "PHYSICS INTEGRATION" to the packaged frame:
\* the particles and the heat it leaves and, unless it raised, its frame
PhysicsTick(ps, tp, at_tick, energy_input, heat) ==
    GridStep([i \in Ids |-> Advance(ps[i], tp)], tp, TotalKE(ps, 0), at_tick,
             energy_input, heat)

\* a put that makes room for the new frame by discarding the oldest
PutNowait_evict(q, frame) ==
    IF data_q_maxsize > 0 /\ Len(q) >= data_q_maxsize
    THEN Append(Tail(q), frame)
    ELSE Append(q, frame)

\* data_q.put_nowait(frame): queue.Full, for a queue with a maxsize, drops it
PutNowait(q, frame) ==
    IF data_q_maxsize > 0 /\ Len(q) >= data_q_maxsize THEN q ELSE Append(q, frame)

(***************************************************************************)
(* The state machine.                                                      *)
(*                                                                         *)
(* pc is "drain" while the engine is in its message loop (each get_nowait  *)
(* is one step) and "physics" from the moment the loop has found running   *)
(* true until the tick has put its frame and counted itself.               *)
(*                                                                         *)
(* obs records, for the properties:                                        *)
(*   stop_in_tick  the place in param_q a STOP took when it was enqueued   *)
(*                 during the tick in progress (0: none was);              *)
(*   stop_pos      that place, for the tick that ended when the current    *)
(*                 iteration began (0: none, or the iteration began        *)
(*                 otherwise);                                             *)
(*   start_seen    a START was dequeued in the current iteration;          *)
(*   impulse_seen  an APPLY_IMPULSE was dequeued in the current iteration; *)
(*   repeated      the message dequeued last is the one dequeued before it;*)
(*   trail         for each completed tick and each regular particle, how  *)
(*                 the energy the state machine read compares with the     *)
(*                 threshold (1 above, 0 equal, -1 below), the state the   *)
(*                 particle entered the tick in and the state it left it   *)
(*                 in;                                                     *)
(*   tick_raised   some tick raised;  resumed: a tick completed after that.*)
(***************************************************************************)
UNSET == Msg("unset", "absent", "absent", 0, "absent", 0, "absent", NoParams)

NewIteration(o) ==
    [o EXCEPT !.stop_pos = 0, !.start_seen = FALSE, !.impulse_seen = FALSE]

Sign(a) == IF a > 0 THEN 1 ELSE IF a < 0 THEN -1 ELSE 0

\* what a completed tick adds to obs.trail
TrailEntry(before, ps, tp) ==
    [i \in Ids \ {0} |->
        [was |-> before[i].state,
         cmp |-> IF Finite(ps[i].kinetic_energy) /\ Finite(ps[i].potential_energy)
                 THEN Sign(ps[i].kinetic_energy + ps[i].potential_energy
                           - 4 * tp.energy_threshold_s1)
                 ELSE 0,
         state |-> ps[i].state]]

InitLoop(built, maxsize) ==
    /\ param_q = << >>
    /\ data_q = << >>
    /\ data_q_maxsize = maxsize
    /\ spatial_grid = NoCells
    /\ pc = "drain"
    /\ messages_processed = 0
    /\ message = UNSET
    /\ running = FALSE
    /\ tick = 0
    /\ tunable_params = InitialParams
    /\ particles \in built
    /\ total_energy_input = 0
    /\ total_heat_dissipated = 0
    /\ snapshots = {}
    /\ obs = [stop_in_tick |-> 0, stop_pos |-> 0, start_seen |-> FALSE,
              impulse_seen |-> FALSE,
              repeated |-> FALSE, tick_raised |-> FALSE, resumed |-> FALSE,
              trail |-> << >>]

\* the engine as simulation_app.py starts it: the particles of the
\* construction and a data_q without maxsize
InitEngine(draws) ==
    InitLoop({InitialParticles(nudge) : nudge \in draws}, DATA_Q_MAXSIZE)

\* a caller of param_q.put
Enqueue(m) ==
    /\ outbox.left > 0
    /\ m \in DOMAIN outbox.may
    /\ outbox.may[m] > 0
    /\ outbox' = [left |-> outbox.left - 1,
                  may |-> [outbox.may EXCEPT ![m] = @ - 1]]
    /\ param_q' = Append(param_q, m)
    /\ obs' = IF pc = "physics" /\ m = STOP /\ obs.stop_in_tick = 0
              THEN [obs EXCEPT !.stop_in_tick = Len(param_q) + 1]
              ELSE obs
    /\ UNCHANGED << data_q, data_q_maxsize, spatial_grid, pc, messages_processed, message,
                    running, tick, tunable_params, particles, total_energy_input,
                    total_heat_dissipated, snapshots >>

\* a drain whose bound is off by one: while messages_processed <= 10
DrainContinues_inclusive(n) == n <= MAX_BATCH

\* a drain that stops one message early: while messages_processed < 9
DrainContinues_short(n) == n < MAX_BATCH - 1

\* a drain with its test reversed: while messages_processed > 10
DrainContinues_never(n) == n > MAX_BATCH

\* while messages_processed < 10
DrainContinues(n) == n < MAX_BATCH

\* a handler that logs the fault and leaves running as it is
ExceptHandler_keeps(run) == run

\* except Exception as e: ... running = False
ExceptHandler(run) == FALSE

\* a loop that forgets to test running before the tick
SkipsTick_never(run) == FALSE

\* if not running: time.sleep(0.05); continue
SkipsTick(run) == ~run

\* the drain loop is entered again and get_nowait() returns a message
CanDequeue ==
    /\ pc = "drain"
    /\ DrainContinues(messages_processed)
    /\ param_q # << >>

\* the drain loop is left: its condition fails or get_nowait() raises queue.Empty
DrainOver ==
    /\ pc = "drain"
    /\ ~DrainContinues(messages_processed) \/ param_q = << >>

\* message = param_q.get_nowait() and the body of the drain loop
GetMessage ==
    /\ CanDequeue
    /\ \E m \in {Head(param_q)}, r \in {ProcessMessage(Head(param_q), EngineState, tick)} :
           /\ param_q' = Tail(param_q)
           /\ message' = m
           /\ tunable_params' = r.st.tunable_params
           /\ particles' = r.st.particles
           /\ total_energy_input' = r.st.total_energy_input
           /\ snapshots' = r.st.snapshots
           /\ IF r.fault
              THEN \* except Exception: running = False, and the loop starts over
                   /\ running' = ExceptHandler(running)
                   /\ messages_processed' = 0
                   /\ obs' = [NewIteration(obs) EXCEPT !.repeated = FALSE]
              ELSE /\ running' = r.st.running
                   /\ messages_processed' = messages_processed + 1
                   /\ obs' = [obs EXCEPT !.repeated = (message = m),
                                         !.start_seen = @ \/ m = START,
                                         !.impulse_seen =
                                            @ \/ (m.shape = "dict"
                                                  /\ m.command = "APPLY_IMPULSE")]
    /\ pc' = "drain"
    /\ UNCHANGED << data_q, data_q_maxsize, spatial_grid, outbox, tick,
                    total_heat_dissipated >>

\* the drain ends, on queue.Empty or on its bound; then "if not running"
EndDrain ==
    /\ DrainOver
    /\ IF ~SkipsTick(running)
       THEN /\ pc' = "physics"
            /\ UNCHANGED << messages_processed, obs >>
       ELSE \* time.sleep(0.05); continue
            /\ pc' = "drain"
            /\ messages_processed' = 0
            /\ obs' = NewIteration(obs)
    /\ UNCHANGED << param_q, data_q, data_q_maxsize, spatial_grid, outbox, message, running,
                    tick, tunable_params, particles, total_energy_input,
                    total_heat_dissipated, snapshots >>

\* one tick: the physics, the frame, tick += 1; a tick that raises is caught
\* by "except Exception", which sets running = False
Physics ==
    /\ pc = "physics"
    /\ tick < MaxTick
    /\ \E r \in {PhysicsTick(particles, tunable_params, tick,
                             total_energy_input, total_heat_dissipated)} :
           /\ particles' = r.particles
           /\ total_heat_dissipated' = r.heat
           /\ IF r.fault
              THEN /\ running' = ExceptHandler(running)
                   /\ UNCHANGED << data_q, tick >>
                   /\ obs' = [NewIteration(obs) EXCEPT
                                !.stop_pos = obs.stop_in_tick, !.stop_in_tick = 0,
                                !.tick_raised = TRUE]
              ELSE /\ data_q' = PutNowait(data_q, r.frame[1])
                   /\ tick' = tick + 1
                   /\ UNCHANGED running
                   /\ obs' = [NewIteration(obs) EXCEPT
                                !.stop_pos = obs.stop_in_tick, !.stop_in_tick = 0,
                                !.resumed = @ \/ obs.tick_raised,
                                !.trail = Append(@, TrailEntry(particles, r.particles,
                                                               tunable_params))]
    /\ spatial_grid' = Rebuilt([i \in Ids |-> Advance(particles[i], tunable_params)])
    /\ pc' = "drain"
    /\ messages_processed' = 0
    /\ UNCHANGED << param_q, data_q_maxsize, outbox, message, tunable_params,
                    total_energy_input, snapshots >>

\* the renderer's data_q.get_nowait()
Consume ==
    /\ data_q # << >>
    /\ data_q' = Tail(data_q)
    /\ UNCHANGED << param_q, data_q_maxsize, spatial_grid, outbox, pc, messages_processed,
                    message, running, tick, tunable_params, particles,
                    total_energy_input, total_heat_dissipated, snapshots, obs >>

Next ==
    \/ \E m \in DOMAIN outbox.may : Enqueue(m)
    \/ GetMessage
    \/ EndDrain
    \/ Physics
    \/ Consume

\* any caller, MaxSent messages in all; the update that repairs P_BAD is left
\* to SpecFault
Init ==
    /\ InitEngine(NudgeChoices)
    /\ outbox = [left |-> MaxSent,
                 may |-> [m \in Messages \ {Params(P_FIX)} |-> MaxSent]]

Spec == Init /\ [][Next]_vars

\* a burst: one START, one STOP and MaxBurst messages of an unknown kind, in a
\* run with one draw of the nudges
InitBurst ==
    /\ InitEngine({[i \in Ids |-> Vector2D(4, 0)]})
    /\ outbox = [left |-> MaxBurst + 2,
                 may |-> [m \in {START, STOP, UNKNOWN_COMMAND} |->
                            IF m = UNKNOWN_COMMAND THEN MaxBurst ELSE 1]]

SpecBurst == InitBurst /\ [][Next]_vars

\* a run whose tick raises: the update that makes it raise, the update that
\* repairs it, and MaxRestarts START messages
InitFault ==
    /\ InitEngine(NudgeChoices)
    /\ outbox = [left |-> MaxRestarts + 2,
                 may |-> [m \in {START, Params(P_BAD), Params(P_FIX)} |->
                            IF m = START THEN MaxRestarts ELSE 1]]

SpecFault == InitFault /\ [][Next]_vars

(***************************************************************************)
(* Steps of the engine, as seen from two successive states.                *)
(***************************************************************************)
\* the step is a get_nowait() that returned a message
Dequeued == Len(param_q') = Len(param_q) - 1

\* the step dequeued the message m and its handling did not raise
Handled(m) ==
    /\ Dequeued
    /\ Head(param_q) = m
    /\ messages_processed' = messages_processed + 1

\* the step ends a drain: the engine goes on to the tick or to its sleep
DrainEnds ==
    /\ pc = "drain"
    /\ ~Dequeued
    /\ pc' = "physics" \/ (messages_processed > 0 /\ messages_processed' = 0)

\* what the engine computes with, apart from the channels
WorldUnchanged ==
    UNCHANGED << tunable_params, particles, total_energy_input,
                 total_heat_dissipated, tick, snapshots >>

(***************************************************************************)
(* C1: a drain dequeues at most 10 messages, in arrival order, without     *)
(* blocking; it ends as soon as the channel is empty or 10 messages have   *)
(* been handled, and what it did not dequeue stays queued, in order.       *)
(***************************************************************************)
C1_DrainStep ==
    /\ Dequeued => /\ pc = "drain"
                   /\ messages_processed < MAX_BATCH
                   /\ param_q' = Tail(param_q)
    /\ DrainEnds => /\ param_q = << >> \/ messages_processed = MAX_BATCH
                    /\ param_q' = param_q

C1_NeverBlocks ==
    /\ messages_processed \in 0 .. MAX_BATCH
    /\ pc = "drain" =>
          /\ CanDequeue \/ DrainOver
          /\ param_q = << >> => DrainOver /\ ~CanDequeue
          /\ messages_processed = MAX_BATCH => DrainOver /\ ~CanDequeue

C1_BoundedDrain == []C1_NeverBlocks /\ [][C1_DrainStep]_vars

\* a drain has handled 10 messages and an 11th is still queued
C1_Witness ==
    /\ messages_processed = MAX_BATCH
    /\ param_q # << >>
    /\ pc = "physics"

(***************************************************************************)
(* C2: while running is false the loop still drains messages but does no   *)
(* physics work: tick, the frames emitted, heat_dissipated and every       *)
(* particle's position, state, net_force and energies stay as they are.    *)
(* START sets running to true and STOP sets it to false, whatever it was.  *)
(***************************************************************************)
PhysicsFields(p) ==
    << p.position, p.state, p.net_force, p.kinetic_energy, p.potential_energy >>

C2_IdleStep ==
    /\ ~running =>
          /\ tick' = tick
          /\ Len(data_q') <= Len(data_q)
          /\ total_heat_dissipated' = total_heat_dissipated
          /\ \A i \in Ids : PhysicsFields(particles'[i]) = PhysicsFields(particles[i])
    /\ Handled(START) => running'
    /\ Handled(STOP) => ~running'
    /\ pc' = "physics" => running

C2_StillDrains ==
    /\ pc = "physics" => running
    /\ ~running =>
          /\ pc = "drain"
          /\ CanDequeue \/ DrainOver
          /\ (param_q # << >> /\ messages_processed < MAX_BATCH) => CanDequeue

C2_Idle == []C2_StillDrains /\ [][C2_IdleStep]_vars

\* the engine ran, was stopped, and has gone through an iteration while
\* stopped: its drain ended and the tick was skipped
C2_Witness ==
    /\ ~running
    /\ tick > 0
    /\ message = STOP
    /\ messages_processed = 0
    /\ pc = "drain"

(***************************************************************************)
(* C3, as stated: a STOP enqueued while a tick executes takes effect at    *)
(* the very next drain, whatever else is pending: the engine does not      *)
(* begin another tick after that drain unless the drain handled a START.   *)
(***************************************************************************)
C3_VeryNextDrain ==
    (pc = "physics" /\ obs.stop_pos > 0) => obs.start_seen

(***************************************************************************)
(* C3, amended: a STOP enqueued while a tick executes does not interrupt   *)
(* the tick and takes effect at the drain that dequeues it, which is the   *)
(* very next drain when fewer than 10 messages are queued ahead of it;     *)
(* from then on no tick begins until a START is handled.                   *)
(***************************************************************************)
C3_StopWithinBatch ==
    (pc = "physics" /\ obs.stop_pos \in 1 .. MAX_BATCH) => obs.start_seen

C3_StopStep ==
    /\ (pc = "physics" /\ param_q' = Append(param_q, STOP)) =>
          /\ running' /\ pc' = "physics"
          /\ particles' = particles /\ tick' = tick
    /\ (Dequeued /\ Head(param_q) = STOP) => ~running'
    /\ (~running /\ running') => (Dequeued /\ Head(param_q) = START)

C3_StopAtItsDrain == []C3_StopWithinBatch /\ [][C3_StopStep]_vars

\* a STOP enqueued during a tick behind fewer than 10 messages has been
\* handled by the next drain, with messages still pending behind it
C3_Witness ==
    /\ obs.stop_pos \in 2 .. MAX_BATCH
    /\ message = STOP
    /\ messages_processed = obs.stop_pos
    /\ ~running
    /\ param_q # << >>

(***************************************************************************)
(* C4: APPLY_IMPULSE with a non-zero direction adds to the drone velocity  *)
(* a delta of magnitude impulse_magnitude / drone.mass along the           *)
(* direction, with the impulse_magnitude in force when the message is      *)
(* handled, and adds 0.5 * drone.mass * (|v_after|^2 - |v_before|^2) to    *)
(* energy_input; nothing else changes.  Masses are in 1/MASS_DEN and       *)
(* energies in quarter units, so both equations are exact in integers.     *)
(***************************************************************************)
C4_Effect(d) ==
    LET drone == particles[0]
        after == particles'[0]
        delta_v == VSub(after.velocity, drone.velocity)
        length == Magnitude(Vector2D(d[1], d[2]))
        magnitude == tunable_params.impulse_magnitude
    IN  /\ delta_v.x * length * drone.mass = magnitude * d[1] * MASS_DEN
        /\ delta_v.y * length * drone.mass = magnitude * d[2] * MASS_DEN
        /\ total_energy_input' - total_energy_input =
              drone.mass * (MagSq(after.velocity) - MagSq(drone.velocity))
        /\ after = [drone EXCEPT !.velocity = after.velocity]
        /\ \A i \in Ids \ {0} : particles'[i] = particles[i]
        /\ UNCHANGED << running, tunable_params, tick, total_heat_dissipated,
                        data_q, snapshots >>
        /\ messages_processed' = messages_processed + 1

C4_ImpulseStep ==
    \A d \in Directions \ { <<0, 0>> } :
        (Dequeued /\ Head(param_q) = Impulse(d[1], d[2])) => C4_Effect(d)

C4_Impulse == [][C4_ImpulseStep]_vars

\* an impulse along (3, 4) handled after the magnitude was lowered to 2500:
\* the drone, at rest before, moves at (1500, 2000)
C4_Witness ==
    /\ message = Impulse(3, 4)
    /\ tunable_params.impulse_magnitude = 2500
    /\ particles[0].velocity = Vector2D(1500, 2000)
    /\ total_energy_input = particles[0].mass * 6250000

(***************************************************************************)
(* C5: APPLY_IMPULSE with a direction of zero magnitude, force_x and       *)
(* force_y absent included, is a no-op: the message is consumed, nothing   *)
(* raises, and running and every other engine field stay as they are.      *)
(***************************************************************************)
ZeroImpulse(m) ==
    /\ m.shape = "dict"
    /\ m.command = "APPLY_IMPULSE"
    /\ m.fxk # "str" /\ m.fyk # "str"
    /\ ForceVector(m) = Vector2D(0, 0)

C5_ZeroStep ==
    (Dequeued /\ ZeroImpulse(Head(param_q))) =>
        /\ WorldUnchanged
        /\ UNCHANGED << running, data_q >>
        /\ messages_processed' = messages_processed + 1

C5_ZeroImpulse == [][C5_ZeroStep]_vars

\* a running engine has handled an impulse without a direction
C5_Witness ==
    /\ message = IMPULSE_NO_FIELDS
    /\ running
    /\ tick > 0
    /\ messages_processed > 0

(***************************************************************************)
(* C6: a parameter update sets exactly the parameters it names to the      *)
(* values it gives; every other parameter keeps its value, and running,    *)
(* tick and the particles are not touched by the message.                  *)
(***************************************************************************)
C6_UpdateStep ==
    \A u \in ParamUpdates :
        (Dequeued /\ Head(param_q) = Params(u)) =>
            /\ DOMAIN tunable_params' = (DOMAIN tunable_params) \cup (DOMAIN u)
            /\ \A k \in DOMAIN u : tunable_params'[k] = u[k]
            /\ \A k \in (DOMAIN tunable_params) \ (DOMAIN u) :
                   tunable_params'[k] = tunable_params[k]
            /\ UNCHANGED << running, tick, particles, total_energy_input,
                            total_heat_dissipated, data_q, snapshots >>
            /\ messages_processed' = messages_processed + 1

C6_PartialUpdate == [][C6_UpdateStep]_vars

\* two updates have been merged: the first is still there after the second
C6_Witness ==
    /\ message = Params(P_MODE)
    /\ tunable_params.s1_epsilon = 7
    /\ tunable_params.impulse_magnitude = 2500
    /\ tunable_params.s0_epsilon = InitialParams.s0_epsilon

(***************************************************************************)
(* C7: applying the same partial update twice in a row gives the parameter *)
(* state that applying it once gives, from every parameter state the       *)
(* engine reaches and for every update.                                    *)
(***************************************************************************)
C7_MergeTwice ==
    \A u \in ParamUpdates :
        DictUpdate(DictUpdate(tunable_params, u), u) = DictUpdate(tunable_params, u)

C7_SecondStep ==
    \A u \in ParamUpdates :
        (Dequeued /\ Head(param_q) = Params(u) /\ message = Params(u)) =>
            tunable_params' = tunable_params

C7_Idempotent == []C7_MergeTwice /\ [][C7_SecondStep]_vars

\* the engine has handled the same update twice in a row
C7_Witness ==
    /\ obs.repeated
    /\ message = Params(P_MAG)
    /\ tunable_params.impulse_magnitude = 2500

(***************************************************************************)
(* C8: a message of an unknown kind (a command that is none of START,      *)
(* STOP, LOG_SNAPSHOT, APPLY_IMPULSE, or a message with neither a command  *)
(* nor params) is consumed and ignored: running, the parameters, tick, the *)
(* energy accumulators and the particles are unchanged.                    *)
(***************************************************************************)
UnknownKind(m) ==
    /\ m.shape = "dict"
    /\ m.command \notin Known
    /\ m.command # "absent" \/ m.pk = "absent"

C8_UnknownStep ==
    (Dequeued /\ UnknownKind(Head(param_q))) =>
        /\ WorldUnchanged
        /\ UNCHANGED << running, data_q >>
        /\ messages_processed' = messages_processed + 1

C8_UnknownIgnored == [][C8_UnknownStep]_vars

\* a running engine has handled a command it does not know
C8_Witness ==
    /\ message = UNKNOWN_COMMAND
    /\ running
    /\ tick > 0
    /\ messages_processed > 0
    /\ snapshots = {}

(***************************************************************************)
(* C9, as stated: a malformed message is ignored: handling it leaves       *)
(* running, the parameters and the physics state unchanged, and the drain  *)
(* goes on with the messages behind it.                                    *)
(***************************************************************************)
C9_MalformedStep ==
    (Dequeued /\ Head(param_q) \in Malformed) =>
        /\ WorldUnchanged
        /\ UNCHANGED running
        /\ messages_processed' = messages_processed + 1

C9_MalformedIgnored == [][C9_MalformedStep]_vars

(***************************************************************************)
(* C10: a fault raised by a tick is caught: running becomes false, the     *)
(* loop goes back to draining the control channel, and a START handled     *)
(* afterwards sets running to true again, so that ticks execute again.     *)
(***************************************************************************)
TickRaised == pc = "physics" /\ pc' = "drain" /\ tick' = tick

C10_FaultStep ==
    /\ TickRaised => /\ ~running'
                     /\ messages_processed' = 0
                     /\ param_q' = param_q
    /\ (Dequeued /\ Head(param_q) = START) =>
          /\ running'
          /\ messages_processed' = messages_processed + 1
    /\ (DrainEnds /\ running) => pc' = "physics"

C10_LoopAlive ==
    /\ pc \in {"drain", "physics"}
    /\ pc = "drain" => CanDequeue \/ DrainOver
    /\ (obs.tick_raised /\ ~obs.resumed /\ pc = "physics") => obs.start_seen

C10_FaultPauses == []C10_LoopAlive /\ [][C10_FaultStep]_vars

\* a tick raised, a START was handled afterwards, and a tick has completed
C10_Witness ==
    /\ obs.tick_raised
    /\ obs.resumed
    /\ running
    /\ tick = MaxTick

(***************************************************************************)
(* simulation_process handed a data_q built with a maxsize, which          *)
(* simulation_app.py never does: the only runs in which put_nowait can     *)
(* raise queue.Full.                                                       *)
(***************************************************************************)
InitBounded ==
    /\ InitLoop({InitialParticles(nudge) : nudge \in NudgeChoices}, Capacity)
    /\ outbox = [left |-> 3, may |-> [m \in {START, STOP} |-> 2]]

SpecBounded == InitBounded /\ [][Next]_vars

\* the step is a tick that ran to its end
TickCompleted == pc = "physics" /\ tick' = tick + 1

\* put_nowait would raise queue.Full
QueueFull == data_q_maxsize > 0 /\ Len(data_q) >= data_q_maxsize

(***************************************************************************)
(* C11: when the frame queue is full at emission, the frame of the tick is *)
(* dropped, without retry and without blocking: tick is still incremented, *)
(* the rest of the engine state is what it would be had the frame been     *)
(* delivered, and the loop goes on to its next iteration.                  *)
(***************************************************************************)
C11_FullStep ==
    (TickCompleted /\ QueueFull) =>
        /\ data_q' = data_q
        /\ tick' = tick + 1
        /\ pc' = "drain"
        /\ messages_processed' = 0
        /\ particles' = PhysicsTick(particles, tunable_params, tick,
                                    total_energy_input, total_heat_dissipated).particles
        /\ total_heat_dissipated' =
              PhysicsTick(particles, tunable_params, tick,
                          total_energy_input, total_heat_dissipated).heat
        /\ UNCHANGED << param_q, running, tunable_params, total_energy_input,
                        snapshots, data_q_maxsize >>

C11_DroppedWhenFull == [][C11_FullStep]_vars

\* a tick has completed whose frame is not in the queue, the queue still
\* holding an older frame
C11_Witness ==
    /\ QueueFull
    /\ data_q[Len(data_q)].tick < tick - 1
    /\ running

(***************************************************************************)
(* C12, as stated: the frame queue is bounded with a small capacity: the   *)
(* frames queued and not yet consumed never exceed that capacity, however  *)
(* slowly the renderer reads.                                              *)
(***************************************************************************)
C12_SmallCapacity == Len(data_q) <= Capacity

(***************************************************************************)
(* C13: a tick that completes attempts exactly one frame emission, with    *)
(* the number of that tick, and then increments tick by exactly 1; the     *)
(* ticks of the frames on the queue are strictly increasing, and tick      *)
(* changes in no other way.                                                *)
(***************************************************************************)
C13_TickStep ==
    /\ tick' # tick => TickCompleted /\ running
    /\ TickCompleted =>
          \/ QueueFull /\ data_q' = data_q
          \/ /\ ~QueueFull
             /\ Len(data_q') = Len(data_q) + 1
             /\ SubSeq(data_q', 1, Len(data_q)) = data_q
             /\ data_q'[Len(data_q')].tick = tick
    /\ Len(data_q') > Len(data_q) => TickCompleted

C13_FramesIncrease ==
    \A i \in 1 .. Len(data_q) :
        /\ data_q[i].tick \in 0 .. (tick - 1)
        /\ i > 1 => data_q[i - 1].tick < data_q[i].tick

C13_OneFramePerTick == []C13_FramesIncrease /\ [][C13_TickStep]_vars

\* two ticks have completed and their frames are queued in order
C13_Witness ==
    /\ Len(data_q) >= 2
    /\ data_q[Len(data_q)].tick = tick - 1
    /\ data_q[Len(data_q) - 1].tick = tick - 2

(***************************************************************************)
(* Excitation.  A run in which the front end moves the threshold: START,   *)
(* the two threshold updates and an update of s1_epsilon, each sent at     *)
(* most once and in any order.                                             *)
(***************************************************************************)
InitExcite ==
    /\ InitEngine(NudgeChoices)
    /\ outbox = [left |-> 3,
                 may |-> [m \in {START, Params(P_LOW), Params(P_EDGE),
                                 Params(P_MODE)} |-> 1]]

SpecExcite == InitExcite /\ [][Next]_vars

Regular == Ids \ {0}

\* the energy the state machine of particle i read in the tick this step is
Energy(i) == particles'[i].kinetic_energy + particles'[i].potential_energy

\* the threshold in force for the tick this step is, in the units of Energy
Threshold == 4 * tunable_params.energy_threshold_s1

\* C14: in a completed tick a regular particle goes from S0 to S1 exactly
\* when the energy read in that tick is above the threshold in force, from
\* S1 to S0 exactly when it is below, and keeps its state when they are
\* equal; outside a completed tick no particle changes state, and the drone
\* never does.
C14_Rule ==
    /\ TickCompleted =>
          \A i \in Regular :
              /\ particles[i].state = "S0" =>
                    (particles'[i].state = "S1" <=> Energy(i) > Threshold)
              /\ particles[i].state = "S1" =>
                    (particles'[i].state = "S0" <=> Energy(i) < Threshold)
              /\ Energy(i) = Threshold => particles'[i].state = particles[i].state
    /\ ~TickCompleted =>
          \A i \in Regular : particles'[i].state = particles[i].state
    /\ particles'[0].state = "S0"

C14_ExcitationRule == [][C14_Rule]_vars

\* a tick has read an energy equal to the threshold and left the particle in S0
C14_Witness ==
    /\ obs.trail # << >>
    /\ \E i \in Regular :
          /\ obs.trail[Len(obs.trail)][i] = [was |-> "S0", cmp |-> 0, state |-> "S0"]
          /\ particles[i].kinetic_energy > 0

\* the ticks particle i has completed, oldest first
Trail(i) == [k \in 1..Len(obs.trail) |-> obs.trail[k][i]]

\* every tick from a to b read an energy that compares as cmp with the threshold
Throughout(i, a, b, cmp) == \A k \in a..b : Trail(i)[k].cmp = cmp

\* the ticks from a to b in which particle i went from one state to another
Changes(i, a, b, from, to) ==
    {k \in a..b : Trail(i)[k].was = from /\ Trail(i)[k].state = to}

\* C15: over every interval of consecutive completed ticks in which the
\* energy of a regular particle is above the threshold the particle leaves
\* each tick in S1, entering S1 at most once; over every interval in which
\* it is below, the particle leaves each tick in S0 and returns from S1 to
\* S0 once if it entered the interval in S1 and never otherwise; a tick
\* that reads an energy equal to the threshold leaves the state alone.
C15_Monotone ==
    \A i \in Regular : \A a \in 1..Len(obs.trail) : \A b \in a..Len(obs.trail) :
        /\ Throughout(i, a, b, 1) =>
              /\ \A k \in a..b : Trail(i)[k].state = "S1"
              /\ Cardinality(Changes(i, a, b, "S0", "S1")) =
                    (IF Trail(i)[a].was = "S0" THEN 1 ELSE 0)
              /\ Changes(i, a, b, "S1", "S0") = {}
        /\ Throughout(i, a, b, -1) =>
              /\ \A k \in a..b : Trail(i)[k].state = "S0"
              /\ Cardinality(Changes(i, a, b, "S1", "S0")) =
                    (IF Trail(i)[a].was = "S1" THEN 1 ELSE 0)
              /\ Changes(i, a, b, "S0", "S1") = {}
        /\ Throughout(i, a, b, 0) =>
              \A k \in a..b : Trail(i)[k].state = Trail(i)[k].was

\* an excursion: a particle went above the threshold, then below, and is back in S0
C15_Witness ==
    /\ Len(obs.trail) = 2
    /\ \E i \in Regular :
          /\ Trail(i)[1] = [was |-> "S0", cmp |-> 1, state |-> "S1"]
          /\ Trail(i)[2] = [was |-> "S1", cmp |-> -1, state |-> "S0"]
          /\ particles[i].state = "S0"
          /\ particles[i].mass = S0_MASS

\* the mass, sigma and epsilon a state and the parameters stand for
Profile(state, tp) ==
    IF state = "S1"
    THEN [mass |-> S1_MASS, sigma |-> S1_SIGMA, epsilon |-> tp.s1_epsilon]
    ELSE [mass |-> S0_MASS, sigma |-> S0_SIGMA, epsilon |-> tp.s0_epsilon]

\* particle i as the force evaluation of the tick this step is reads it
AtForces(i) == Advance(particles[i], tunable_params)

\* C16: in every completed tick the mass, sigma and epsilon of every regular
\* particle at force evaluation are those its state and the parameters of
\* that tick stand for.
C16_Derived ==
    TickCompleted =>
        \A i \in Regular :
            [mass |-> AtForces(i).mass, sigma |-> AtForces(i).sigma,
             epsilon |-> AtForces(i).epsilon]
              = Profile(AtForces(i).state, tunable_params)

C16_DerivedAtForces == [][C16_Derived]_vars

(***************************************************************************)
(* The grid as a function of the positions.  The positions of the drone    *)
(* and of the first particle are drawn from the coordinates next to the    *)
(* borders of the cells around the origin, on both sides of zero; the one  *)
(* step is the rebuild of lines 220-224, clear() and insert(p) for every   *)
(* particle.                                                               *)
(***************************************************************************)
BorderCoords ==
    {k * CELL_SIZE * PosScale + e : k \in -1 .. 2, e \in {-1, 0}}

GridInputs ==
    {[InitialParticles([i \in Ids |-> Vector2D(4, 0)])
        EXCEPT ![0].position = Vector2D(dx, dy), ![1].position = Vector2D(px, py)] :
        dx \in BorderCoords, dy \in BorderCoords \ {11999, 23999},
        px \in BorderCoords \ {-12001, -1}, py \in BorderCoords}

InitGrid ==
    /\ InitLoop(GridInputs, DATA_Q_MAXSIZE)
    /\ outbox = [left |-> 0, may |-> [m \in {START} |-> 0]]

\* spatial_grid.clear(); for p in particles: spatial_grid.insert(p)
Rebuild ==
    /\ spatial_grid = NoCells
    /\ spatial_grid' = Cells(particles)
    /\ UNCHANGED << param_q, data_q, data_q_maxsize, outbox, pc, messages_processed,
                    message, running, tick, tunable_params, particles,
                    total_energy_input, total_heat_dissipated, snapshots, obs >>

NextGrid == Rebuild

SpecGrid == InitGrid /\ [][NextGrid]_vars

\* the two positions are at most cell_size apart
WithinCellSize(a, b) ==
    /\ Abs(a.x - b.x) <= CELL_SIZE * PosScale
    /\ Abs(a.y - b.y) <= CELL_SIZE * PosScale
    /\ MagSq(VSub(a, b)) <= (CELL_SIZE * PosScale) * (CELL_SIZE * PosScale)

InSeq(x, seq) == \E k \in 1..Len(seq) : seq[k] = x

\* C20: once the grid is rebuilt from the positions, any two particles at
\* most cell_size apart are each in the list get_neighbors returns for the
\* other, whatever the signs of their coordinates and also on cell borders.
C20_NeighborSuperset ==
    spatial_grid # NoCells =>
        \A i \in Ids : \A j \in Ids \ {i} :
            WithinCellSize(particles[i].position, particles[j].position) =>
                InSeq(j, get_neighbors(spatial_grid, particles[i].position))

\* a rebuilt grid with two particles cell_size apart in different cells, one
\* at negative coordinates and the other on a cell border
C20_Witness ==
    /\ spatial_grid # NoCells
    /\ particles[0].position.x < 0 /\ particles[0].position.y < 0
    /\ particles[1].position.x = 0
    /\ GetCellCoords(particles[0].position) # GetCellCoords(particles[1].position)
    /\ MagSq(VSub(particles[0].position, particles[1].position))
          = (CELL_SIZE * PosScale) * (CELL_SIZE * PosScale)
    /\ InSeq(0, get_neighbors(spatial_grid, particles[1].position))

(***************************************************************************)
(* The loop in mid-run.  From the constructed layout the particles are     *)
(* hundreds of ticks away from the walls and from each other, so the runs  *)
(* below start from arrangements the loop is in at the top of a later      *)
(* iteration: every particle inside the walls, mass, sigma and epsilon     *)
(* those of its state, kinetic_energy that of its velocity, and net_force, *)
(* potential_energy and acceleration those the force loops give at its     *)
(* position.  tick and the two energy accumulators count from the start of *)
(* the run shown; the physics reads none of them.                          *)
(***************************************************************************)
\* a particle in the given state at a position, with a velocity
Placed(position, velocity, state) ==
    [update_state(NewParticle(position, velocity), state, InitialParams)
        EXCEPT !.kinetic_energy =
                  (IF state = "S1" THEN S1_MASS ELSE S0_MASS) * MagSq(velocity)]

\* the drone at a position, with a velocity; after its first tick its epsilon
\* is s0_epsilon
PlacedDrone(position, velocity) ==
    [NewParticle(position, velocity)
        EXCEPT !.mass = DRONE_MASS, !.sigma = DRONE_SIGMA,
               !.kinetic_energy = DRONE_MASS * MagSq(velocity)]

\* a particle out of the way of the others
Bystander(i) == Placed(Vector2D(20000 * i, 100000), Vector2D(4, 0), "S0")

\* the forces of a tick that ended at these positions
Settled(placed) ==
    LET forces == PairInteractions(DroneInteractions(ResetForces(placed), 1).ps,
                                   placed, 1, 0).ps
    IN  [i \in Ids |->
            [forces[i] EXCEPT !.acceleration =
                                 VScale(forces[i].net_force, MASS_DEN, forces[i].mass)]]

\* the drone in the lower left corner, just reflected at both walls and at full
\* speed; a calm particle about to reach the left wall; an excited one about
\* to reach the upper right corner
AtTheWalls ==
    Settled([i \in Ids |->
        IF i = 0 THEN PlacedDrone(Vector2D(3000, 3000), Vector2D(240, 320))
        ELSE IF i = 1 THEN Placed(Vector2D(1503, 12200), Vector2D(-5, 3), "S0")
        ELSE IF i = 2 THEN Placed(Vector2D(ENV_SIZE_X * PosScale - 2001,
                                           ENV_SIZE_Y * PosScale - 2001),
                                  Vector2D(300, 200), "S1")
        ELSE Bystander(i)])

\* the drone at rest in the centre, one impulse away from two calm particles
\* that drift towards each other
Closing ==
    Settled([i \in Ids |->
        IF i = 0 THEN PlacedDrone(Vector2D(80000, 60000), Vector2D(0, 0))
        ELSE IF i = 1 THEN Placed(Vector2D(75200, 53600), Vector2D(4, 0), "S0")
        ELSE IF i = 2 THEN Placed(Vector2D(78400, 53600), Vector2D(-5, 3), "S0")
        ELSE Bystander(i)])

Scenes == {AtTheWalls, Closing}

\* {'command': 'APPLY_IMPULSE', 'force_x': -3, 'force_y': -4}
IMPULSE_DOWN_LEFT == Impulse(-3, -4)

InitScene ==
    /\ InitLoop(Scenes, DATA_Q_MAXSIZE)
    /\ outbox = [left |-> 3,
                 may |-> [m \in {START, IMPULSE_DOWN_LEFT, Params(P_MODE),
                                 Params(P_LOW)} |-> 1]]

SpecScene == InitScene /\ [][Next]_vars

\* tunable_params.get('drone_mode')
DroneMode ==
    IF "drone_mode" \in DOMAIN tunable_params THEN tunable_params.drone_mode ELSE "unset"

\* C17: in a completed tick that runs with drone_mode set to idle, orbit or
\* patrol, the drone ends with velocity and acceleration zero.
C17_Step ==
    (TickCompleted /\ DroneMode \in {"idle", "orbit", "patrol"}) =>
        /\ particles'[0].velocity = Vector2D(0, 0)
        /\ particles'[0].acceleration = Vector2D(0, 0)

C17_KinematicDrone == [][C17_Step]_vars

\* sum(p.mass * p.velocity for p in particles), per axis
Momentum(ps) ==
    Vector2D(SumOver([i \in Ids |-> ps[i].mass * ps[i].velocity.x], 0, PARTICLE_COUNT - 1),
             SumOver([i \in Ids |-> ps[i].mass * ps[i].velocity.y], 0, PARTICLE_COUNT - 1))

\* the forces the tick left on the particles, summed per axis
NetForce(ps) ==
    Vector2D(SumOver([i \in Ids |-> ps[i].net_force.x], 0, PARTICLE_COUNT - 1),
             SumOver([i \in Ids |-> ps[i].net_force.y], 0, PARTICLE_COUNT - 1))

Radius(p) == Quot(p.sigma * PosScale, 2)

\* the particle is where the boundary conditions put a reflected particle
AtWall(p) ==
    \/ p.position.x \in {Radius(p), ENV_SIZE_X * PosScale - Radius(p)}
    \/ p.position.y \in {Radius(p), ENV_SIZE_Y * PosScale - Radius(p)}

\* in the tick this step is, no force acts on particle i before or after the
\* force loops, and it neither changes state, nor is over the speed limit,
\* nor is reflected
Free(i) ==
    /\ particles[i].acceleration = Vector2D(0, 0)
    /\ particles'[i].net_force = Vector2D(0, 0)
    /\ particles'[i].state = particles[i].state
    /\ MagSq(particles[i].velocity) <= MAX_VELOCITY * MAX_VELOCITY
    /\ ~AtWall(particles'[i])

\* C18 as stated: a completed tick with no APPLY_IMPULSE in its drain and no
\* particle reflected leaves the total momentum as it was.
C18_MomentumStep ==
    (TickCompleted /\ ~obs.impulse_seen /\ \A i \in Ids : ~AtWall(particles'[i])) =>
        Momentum(particles') = Momentum(particles)

C18_ForcesStep ==
    TickCompleted =>
        /\ NetForce(particles') = Vector2D(0, 0)
        /\ \A i \in Ids :
              Free(i) => particles'[i].velocity
                           = VScale(particles[i].velocity, VELOCITY_DAMPING_NUM,
                                    VELOCITY_DAMPING_DEN)

Contained(p) ==
    /\ Radius(p) <= p.position.x /\ p.position.x <= ENV_SIZE_X * PosScale - Radius(p)
    /\ Radius(p) <= p.position.y /\ p.position.y <= ENV_SIZE_Y * PosScale - Radius(p)

\* the positions a frame reports are inside the environment
FrameInside(f) ==
    /\ \A k \in DOMAIN f.agents :
          /\ 0 <= f.agents[k].x /\ f.agents[k].x <= ENV_SIZE_X * PosScale
          /\ 0 <= f.agents[k].y /\ f.agents[k].y <= ENV_SIZE_Y * PosScale
    /\ 0 <= f.drone.x /\ f.drone.x <= ENV_SIZE_X * PosScale
    /\ 0 <= f.drone.y /\ f.drone.y <= ENV_SIZE_Y * PosScale

\* the frame reports the positions of these particles
Reports(f, ps) ==
    /\ \A k \in DOMAIN f.agents :
          f.agents[k].x = ps[k].position.x /\ f.agents[k].y = ps[k].position.y
    /\ f.drone.x = ps[0].position.x /\ f.drone.y = ps[0].position.y

\* C19: a completed tick leaves every particle, the drone included, with its
\* radius (half the sigma of the state it ends the tick in) inside the walls
\* on both axes, and the frame it emits reports those positions; every frame
\* queued reports positions inside the environment.
C19_Step ==
    TickCompleted =>
        /\ \A i \in Ids : Contained(particles'[i])
        /\ data_q' # data_q => Reports(data_q'[Len(data_q')], particles')

C19_FramesInside == \A k \in 1..Len(data_q) : FrameInside(data_q[k])

C19_Containment == []C19_FramesInside /\ [][C19_Step]_vars

\* a particle that became excited next to the left wall sits at its new radius
\* with its velocity turned inwards, another was put back into the upper right
\* corner, and the frame of that tick is queued
C19_Witness ==
    /\ tick > 0 /\ data_q # << >>
    /\ particles[1].state = "S1" /\ particles[1].position.x = Radius(particles[1])
    /\ particles[1].velocity.x > 0
    /\ particles[2].position = Vector2D(ENV_SIZE_X * PosScale - Radius(particles[2]),
                                        ENV_SIZE_Y * PosScale - Radius(particles[2]))
    /\ particles[2].velocity.x < 0 /\ particles[2].velocity.y < 0
    /\ Reports(data_q[Len(data_q)], particles)

(***************************************************************************)
(* Two excited particles at the turning point of a head-on approach: at    *)
(* rest, 14 apart, where the pair force pushes them apart.  The drone is   *)
(* at rest in the centre, out of reach.                                    *)
(***************************************************************************)
Rebound ==
    Settled([i \in Ids |->
        IF i = 0 THEN PlacedDrone(Vector2D(80000, 60000), Vector2D(0, 0))
        ELSE IF i = 1 THEN Placed(Vector2D(40000, 20000), Vector2D(0, 0), "S1")
        ELSE IF i = 2 THEN Placed(Vector2D(42800, 20000), Vector2D(0, 0), "S1")
        ELSE Bystander(i)])

InitRebound ==
    /\ InitLoop({Rebound}, DATA_Q_MAXSIZE)
    /\ outbox = [left |-> 3, may |-> [m \in {START, STOP, LOG_SNAPSHOT} |-> 1]]

SpecRebound == InitRebound /\ [][Next]_vars

\* the speed limit leaves particle i alone in the tick this step is:
\* p.kinetic_energy is 0.5 * p.mass * speed**2 of the speed it tests
Unclamped(i) ==
    particles'[i].kinetic_energy <= particles[i].mass * MAX_VELOCITY * MAX_VELOCITY

\* C21: in a completed tick in which the speed limit triggers for no
\* particle, total_heat_dissipated does not decrease; and it is never
\* negative while the speed limit has not triggered.
C21_HeatStep ==
    (TickCompleted /\ \A i \in Ids : Unclamped(i)) =>
        total_heat_dissipated' >= total_heat_dissipated

C21_HeatMonotone == [][C21_HeatStep]_vars

\* one part in a thousand of the larger of the two sides of the balance
Tolerance(f) ==
    Quot(Max2(Abs(f.metrics.energy_input),
              Abs(f.metrics.total_energy + f.metrics.heat_dissipated)), 1000)

Balanced(f) == Abs(f.metrics.energy_balance) <= Tolerance(f)

\* no particle of the frame lies at a wall (none was put back by a reflection)
AwayFromWalls(f) ==
    /\ \A i \in DOMAIN f.agents :
          /\ f.agents[i].x > Quot(S1_SIGMA * PosScale, 2)
          /\ f.agents[i].x < ENV_SIZE_X * PosScale - Quot(S1_SIGMA * PosScale, 2)
          /\ f.agents[i].y > Quot(S1_SIGMA * PosScale, 2)
          /\ f.agents[i].y < ENV_SIZE_Y * PosScale - Quot(S1_SIGMA * PosScale, 2)
    /\ f.drone.x > Quot(DRONE_SIGMA * PosScale, 2)
    /\ f.drone.x < ENV_SIZE_X * PosScale - Quot(DRONE_SIGMA * PosScale, 2)
    /\ f.drone.y > Quot(DRONE_SIGMA * PosScale, 2)
    /\ f.drone.y < ENV_SIZE_Y * PosScale - Quot(DRONE_SIGMA * PosScale, 2)

\* C22: every emitted frame of a run without boundary collisions, taken
\* after an impulse was applied, has energy_balance = energy_input -
\* (total_system_energy + heat_dissipated) within one part in a thousand of
\* zero.
C22_EnergyBalance ==
    \A k \in 1..Len(data_q) :
        (AwayFromWalls(data_q[k]) /\ data_q[k].metrics.energy_input > 0)
            => Balanced(data_q[k])

(***************************************************************************)
(* Runs in which a parameter update carries a value that is not finite.    *)
(***************************************************************************)
InitCorrupt ==
    /\ InitEngine(NudgeChoices)
    /\ outbox = [left |-> 3,
                 may |-> [m \in {START, STOP, Params(P_INF), Params(P_FIX)} |->
                            IF m = START THEN 2 ELSE 1]]

SpecCorrupt == InitCorrupt /\ [][Next]_vars

FiniteMetrics(f) ==
    /\ Finite(f.metrics.total_ke)
    /\ Finite(f.metrics.momentum_x)
    /\ Finite(f.metrics.momentum_y)
    /\ Finite(f.metrics.temperature)
    /\ Finite(f.metrics.energy_balance)

\* C23: no emitted frame carries a total_ke, momentum, temperature or
\* energy_balance that is not finite, and no tick leaves a particle with a
\* velocity or a kinetic energy that is not finite.
C23_NoNonFinite ==
    /\ \A k \in 1..Len(data_q) : FiniteMetrics(data_q[k])
    /\ tick > 0 =>
          \A i \in Ids : /\ FiniteVec(particles[i].velocity)
                         /\ Finite(particles[i].kinetic_energy)

(***************************************************************************)
(* The engine as a process that keeps running: the loop is sequential,     *)
(* get_nowait() and put_nowait() do not block and the sleeps are finite,   *)
(* so whichever step the loop is at is eventually taken.  The callers and  *)
(* the renderer are under no such obligation.                              *)
(***************************************************************************)
LiveTotal == MaxBurst + 2

InitLive ==
    /\ InitEngine({[i \in Ids |-> Vector2D(4, 0)]})
    /\ outbox = [left |-> LiveTotal,
                 may |-> [m \in {START, UNKNOWN_COMMAND} |->
                            IF m = UNKNOWN_COMMAND THEN MaxBurst + 1 ELSE 1]]

\* the step Physics is, told by pc alone: Physics is enabled whenever the
\* loop is at the tick, and it is the only step from "physics" to "drain"
TickTaken == pc = "physics" /\ tick < MaxTick /\ pc' = "drain"

SpecLive ==
    /\ InitLive
    /\ [][Next]_vars
    /\ WF_vars(GetMessage)
    /\ WF_vars(EndDrain)
    /\ WF_pc(TickTaken)

\* messages put on param_q so far, and messages taken from it so far
Sent == LiveTotal - outbox.left

Taken == Sent - Len(param_q)

\* the loop of the run modelled has done the ticks it may do
LoopEnded == pc = "physics" /\ tick >= MaxTick

\* param_q changes only by a put at its end or by the get of its head, which
\* the step that takes it processes
FifoStep ==
    param_q' # param_q =>
        \/ \E m \in DOMAIN outbox.may : param_q' = Append(param_q, m)
        \/ /\ param_q # << >>
           /\ param_q' = Tail(param_q)
           /\ message' = Head(param_q)
           /\ pc = "drain"
           /\ \E r \in {ProcessMessage(Head(param_q), EngineState, tick)} :
                 /\ tunable_params' = r.st.tunable_params
                 /\ particles' = r.st.particles
                 /\ r.fault \/ running' = r.st.running

\* C24: the k-th message put on param_q is eventually the k-th taken from
\* it, as long as the loop iterates; messages are taken one at a time from
\* the head and processed by the step that takes them, so in the order they
\* were put and once each; at most 10 are taken per iteration.
C24_Delivered ==
    /\ [][FifoStep]_vars
    /\ [](messages_processed <= MAX_BATCH)
    /\ \A k \in 1..LiveTotal : (Sent >= k) ~> (Taken >= k \/ LoopEnded)

\* an eleventh message of a burst, taken in the iteration after the tick
C24_Witness ==
    /\ Taken > MAX_BATCH
    /\ tick >= 1
    /\ pc = "drain"
    /\ messages_processed >= 1
    /\ messages_processed < Taken

(***************************************************************************)
(* The inelastic factor.                                                   *)
(***************************************************************************)
\* the velocity the tick this step is gives particle i before the state
\* machine: second half kick (with the acceleration the tick leaves), ambient
\* damping, speed limit
AmbientVelocity(i) ==
    LET kicked == VAdd(Advance(particles[i], tunable_params).velocity,
                       VScale(particles'[i].acceleration, 1, 2 * TIME_STEP_DEN))
        damped == VScale(kicked, VELOCITY_DAMPING_NUM, VELOCITY_DAMPING_DEN)
    IN  IF MagSq(damped) > MAX_VELOCITY * MAX_VELOCITY
        THEN VScale(Normalize(damped), MAX_VELOCITY, UNIT)
        ELSE damped

Cooled(i) == particles[i].state = "S1" /\ particles'[i].state = "S0"

C25_Step ==
    TickCompleted =>
        \A i \in Regular :
            /\ ~AtWall(particles'[i]) =>
                  particles'[i].velocity =
                      IF Cooled(i)
                      THEN VScale(AmbientVelocity(i), INELASTIC_COLLISION_DAMPING_NUM,
                                  INELASTIC_COLLISION_DAMPING_DEN)
                      ELSE AmbientVelocity(i)
            /\ Cooled(i) => /\ particles'[i].mass = S0_MASS
                             /\ particles'[i].sigma = S0_SIGMA
                             /\ particles'[i].epsilon = tunable_params.s0_epsilon

\* C25: in a tick a particle's velocity is multiplied by the inelastic
\* factor 0.85 exactly when the particle goes from S1 to S0 in that tick,
\* and the particle then has the mass, sigma and epsilon of S0; in a tick
\* with the transition S0 to S1 or with none the velocity is the one the
\* ambient damping and the speed limit leave.
C25_InelasticOnlyOnCooling == [][C25_Step]_vars

\* a particle that has just gone from S1 to S0: it entered the tick at
\* (-4, 2), the damping left (-3, 1) and the factor 0.85 left (-2, 0)
C25_Witness ==
    /\ Len(obs.trail) = 2
    /\ \E i \in Regular :
          /\ obs.trail[1][i].state = "S1"
          /\ obs.trail[2][i].was = "S1"
          /\ obs.trail[2][i].state = "S0"
          /\ particles[i].velocity = Vector2D(-2, 0)
          /\ particles[i].state = "S0"

(***************************************************************************)
(* The drone and the state machine.                                        *)
(***************************************************************************)
\* C26: the drone is never subject to the state machine: in every state
\* of a run of ticks, impulses and parameter updates it is in the state it
\* was constructed in, with the mass and sigma it was constructed with
\* (update_state would have set those of S0 or S1), whatever its energy.
C26_DroneExempt ==
    /\ particles[0].state = "S0"
    /\ particles[0].mass = DRONE_MASS
    /\ particles[0].sigma = DRONE_SIGMA

\* the drone after a tick that read its energy above the threshold
C26_Witness ==
    /\ tick >= 1
    /\ particles[0].kinetic_energy + particles[0].potential_energy
           > 4 * tunable_params.energy_threshold_s1
    /\ particles[0].state = "S0"
    /\ \E k \in 1..Len(data_q) : data_q[k].metrics.energy_input > 0

(***************************************************************************)
(* The particle-particle pass.                                             *)
(***************************************************************************)
\* the particles as the forces of the tick this step is read them
Forced == [k \in Ids |-> AtForces(k)]

\* the regular particles in the 3x3 neighbourhood of particle i, i left out
Partners(i) == { j \in Regular \ {i} : InSeq(j, GetNeighbors(Forced, i)) }

\* the pair law of the unordered pair {i, j}, from the lower id to the higher
PairOf(i, j) ==
    PairAt(Forced[Min2(i, j)], Forced[Max2(i, j)],
           Lengths(VSub(Forced[Max2(i, j)].position, Forced[Min2(i, j)].position)))

\* the drone-particle law of particle i
DroneLawOf(i) ==
    PairAt(Forced[i], Forced[0], Lengths(VSub(Forced[i].position, Forced[0].position)))

\* the force of the pair {i, j} on i: subtracted from the lower id, added to
\* the higher
PairForceOn(i, j) ==
    IF i < j THEN VSub(Vector2D(0, 0), PairOf(i, j).force_vec)
    ELSE PairOf(i, j).force_vec

\* one evaluation of each pair of partners: what particle i accumulates
ExpectedForce(i) ==
    LET last == PARTICLE_COUNT - 1
        fx == [j \in Ids |-> IF j \in Partners(i) THEN PairForceOn(i, j).x ELSE 0]
        fy == [j \in Ids |-> IF j \in Partners(i) THEN PairForceOn(i, j).y ELSE 0]
    IN  VAdd(DroneLawOf(i).force_vec,
             Vector2D(SumOver(fx, 1, last), SumOver(fy, 1, last)))

ExpectedPotential(i) ==
    LET last == PARTICLE_COUNT - 1
        half == [j \in Ids |-> IF j \in Partners(i)
                               THEN Quot(PairOf(i, j).potential, 2) ELSE 0]
    IN  DroneLawOf(i).potential + SumOver(half, 1, last)

\* how often the pass from p1 evaluates the pair with p2
Evaluations(p1, p2) ==
    Cardinality({ k \in 1..Len(GetNeighbors(Forced, p1)) :
                    GetNeighbors(Forced, p1)[k] = p2 /\ PairSelected(p1, p2) })

C27_Step ==
    TickCompleted =>
        /\ \A i \in Regular :
              /\ particles'[i].net_force = ExpectedForce(i)
              /\ particles'[i].potential_energy = ExpectedPotential(i)
              /\ Evaluations(i, i) = 0
              /\ Evaluations(i, 0) = 0
              /\ \A j \in Partners(i) :
                    /\ i \in Partners(j)
                    /\ Evaluations(Min2(i, j), Max2(i, j)) = 1
                    /\ Evaluations(Max2(i, j), Min2(i, j)) = 0
        /\ particles'[0].net_force =
              Vector2D(-SumOver([j \in Ids |-> DroneLawOf(j).force_vec.x],
                                1, PARTICLE_COUNT - 1),
                       -SumOver([j \in Ids |-> DroneLawOf(j).force_vec.y],
                                1, PARTICLE_COUNT - 1))
        /\ particles'[0].potential_energy = 0

\* C27: in each tick every unordered pair of distinct regular particles in
\* each other's 3x3 neighbourhood is evaluated exactly once, from the lower
\* id: each particle ends the tick with the drone's force plus one force per
\* partner, opposite to the one the partner gets, and with the drone's
\* potential plus half of each pair potential; no particle is paired with
\* itself, and the drone gets nothing from the particle-particle pass.
C27_PairsOnce == [][C27_Step]_vars

\* after a tick in which the two particles, in the same cell, pushed each
\* other, with the drone among the candidates of both and out of reach
C27_Witness ==
    /\ tick >= 1
    /\ particles[1].net_force # Vector2D(0, 0)
    /\ particles[1].net_force = VSub(Vector2D(0, 0), particles[2].net_force)
    /\ particles[0].net_force = Vector2D(0, 0)
    /\ particles[1].potential_energy # 0
    /\ particles[2].potential_energy # 0
    /\ InSeq(0, GetNeighbors(particles, 1))
    /\ InSeq(0, GetNeighbors(particles, 2))
    /\ InSeq(1, GetNeighbors(particles, 2))

(***************************************************************************)
(* The order metric.                                                       *)
(***************************************************************************)
\* the distance from particle i to the nearest of its partners, of lower or
\* of higher id; nothing for a particle without partners
NearestOf(i) ==
    IF Partners(i) = {} THEN 0
    ELSE CHOOSE d \in { PairOf(i, j).r : j \in Partners(i) } :
            \A j \in Partners(i) : d <= PairOf(i, j).r

AverageNearest ==
    Quot(SumOver([i \in Ids |-> IF i \in Regular THEN NearestOf(i) ELSE 0],
                 1, PARTICLE_COUNT - 1),
         PARTICLE_COUNT - 1)

C28_Step ==
    (TickCompleted /\ Len(data_q') = Len(data_q) + 1) =>
        data_q'[Len(data_q')].metrics.order = AverageNearest

\* C28: the order metric of the frame of a tick is the average, over the
\* regular particles, of the distance to the nearest other regular particle
\* among the candidates of the 3x3 neighbourhood, whether that particle has
\* a lower or a higher id.
C28_OrderIsAverageNearest == [][C28_Step]_vars

(***************************************************************************)
(* The drone's interaction profile.                                        *)
(***************************************************************************)
\* C29: in every state of a run the drone's mass, sigma and epsilon are
\* DRONE_MASS, DRONE_SIGMA and DRONE_EPSILON, the values it was constructed
\* with and the ones the drone-particle forces read.
C29_DroneProfile ==
    /\ particles[0].mass = DRONE_MASS
    /\ particles[0].sigma = DRONE_SIGMA
    /\ particles[0].epsilon = DRONE_EPSILON

(***************************************************************************)
(* The kinetic energies a frame reports.                                   *)
(***************************************************************************)
\* 0.5 * mass * |velocity|^2 of a particle, in quarter units
KineticEnergyOf(p) == p.mass * MagSq(p.velocity)

C30_Step ==
    (TickCompleted /\ Len(data_q') = Len(data_q) + 1) =>
        /\ \A i \in Regular :
              data_q'[Len(data_q')].agents[i].ke = KineticEnergyOf(particles'[i])
        /\ data_q'[Len(data_q')].metrics.drone_ke = KineticEnergyOf(particles'[0])

\* C30: in the frame of every tick the kinetic energy reported for each
\* particle, and for the drone, is 0.5 * mass * |velocity|^2 of the mass and
\* velocity the particle has at the end of the tick.
C30_ReportedKineticEnergy == [][C30_Step]_vars

(***************************************************************************)
(* The front end's impulse button.                                         *)
(***************************************************************************)
\* apply_impulse() with the direction d and the slider at the magnitude of
\* u: refused unless the simulation was started; it puts the APPLY_IMPULSE
\* message, then the parameter update that carries the magnitude
Click(d, u) ==
    /\ outbox.may[START] = 0
    /\ outbox.left >= 2
    /\ outbox' = [outbox EXCEPT !.left = @ - 2]
    /\ param_q' = param_q \o << Impulse(d[1], d[2]), Params(u) >>
    /\ UNCHANGED << data_q, data_q_maxsize, spatial_grid, pc, messages_processed, message,
                    running, tick, tunable_params, particles, total_energy_input,
                    total_heat_dissipated, snapshots, obs >>

InitClick ==
    /\ InitEngine(NudgeChoices)
    /\ outbox = [left |-> 5, may |-> [m \in {START} |-> 1]]

NextClick ==
    \/ \E m \in DOMAIN outbox.may : Enqueue(m)
    \/ \E d \in Directions, u \in {P_MAG, [impulse_magnitude |-> IMPULSE_MAGNITUDE]} : Click(d, u)
    \/ GetMessage
    \/ EndDrain
    \/ Physics
    \/ Consume

SpecClick == InitClick /\ [][NextClick]_vars

\* the engine takes the APPLY_IMPULSE of a click whose direction is not zero;
\* the message behind it is the parameter update of the same click
C31_Step ==
    (/\ Dequeued
     /\ Head(param_q).shape = "dict"
     /\ Head(param_q).command = "APPLY_IMPULSE"
     /\ Magnitude(ForceVector(Head(param_q))) > 0) =>
        /\ Len(param_q) >= 2
        /\ param_q[2].pk = "dict"
        /\ particles'[0] =
              ImpulseEffect(particles[0], ForceVector(Head(param_q)),
                            param_q[2].params.impulse_magnitude).drone

\* C31: the impulse of a click is applied to the drone with the
\* impulse_magnitude the front end had when apply_impulse() was invoked.
C31_ClickMagnitude == [][C31_Step]_vars

====
